---------------------------- MODULE Spec2Model ----------------------------
(***************************************************************************)
(* shelltape: the PTY capture session (src/src/pty_capture.rs), the Exec   *)
(* wrapper of the invocation layer (src/src/main.rs) and the Recorder      *)
(* (src/src/recorder.rs), as a state machine.                              *)
(*                                                                         *)
(* Strings are sequences of one-character strings, byte streams are        *)
(* sequences of numbers 0..255, a u32 is the pair of its top bit and its   *)
(* low 31 bits, an i64 nanosecond count is the pair of its era (multiples  *)
(* of 2^63) and its offset inside the era.                                 *)
(***************************************************************************)
EXTENDS Integers, Sequences, FiniteSets, TLC

VARIABLES
    host,           \* the build target and the environment parse_command reads
    command,        \* command_str handed to execute_with_capture
    pc,             \* position of the main thread (main + execute_with_capture)
    err,            \* which `?` made execute_with_capture / main return Err
    start_time,     \* i64 sampled at pty_capture.rs:18-21
    end_time,       \* i64 sampled at pty_capture.rs:141-144
    program,        \* parse_command's first component
    args,           \* parse_command's second component
    spawn_attempts, \* number of calls of spawn_command
    child,          \* "none" | "running" | "exited"
    child_status,   \* the u32 status the child exited with
    slave_held,     \* the supervising process holds pair.slave
    master_held,    \* the coordinator holds pair.master
    pty_out,        \* bytes written by the child, not yet read from the controller side
    written,        \* every byte the child has written (history)
    stdin_buf,      \* bytes typed on the real terminal, not yet read by the input pump
    typed,          \* number of bytes typed so far (history)
    forwarded,      \* bytes the input pump wrote to the controller side
    rpc,            \* position of the output pump (read_thread)
    chunk,          \* buffer[..n] of the output pump
    read_bytes,     \* every byte the output pump has read (history)
    echoed,         \* bytes written to the real terminal's stdout
    output,         \* the shared capture buffer Arc<Mutex<Vec<u8>>>
    pump_end,       \* how the output pump's loop ended
    pump_fault,     \* a terminal write of the output pump has failed
    wpc,            \* position of the input pump (stdin thread)
    wchunk,         \* buffer[..n] of the input pump
    input_end,      \* how the input pump's loop ended
    lock_holder,    \* owner of the capture buffer's mutex
    elapsed,        \* start.elapsed() in ms in the bounded wait
    drain_exit,     \* which conjunct ended the bounded wait
    exit_status,    \* what child.wait() returned
    result,         \* the ExecutionResult returned, or NoResult
    commands_file,  \* the text of the command log (commands.jsonl)
    host_code,      \* the status the host process terminated with
    calls,          \* calls of execute_with_capture made by the process so far
    orphan_wpc,     \* position of the input pump an earlier call left behind
    orphan_wchunk,  \* buffer[..n] of that input pump
    orphan_pty,     \* bytes an output pump left behind has yet to write to the terminal
    stolen,         \* bytes an orphaned input pump has read from the real stdin
    max_size,       \* Recorder.max_output_size
    appended,       \* the commands appended to the log so far (history)
    query,          \* the last search's query
    limit,          \* the last search's limit
    found,          \* what the last search returned
    cleaner,        \* the process that runs cleanup_old_commands: its position and locals
    duration,       \* the times Recorder::record was given last and its duration_ms
    app             \* the App of the browser (tui::run), or NoApp

vars == <<host, command, pc, err, start_time, end_time, program, args,
          spawn_attempts, child, child_status, slave_held, master_held,
          pty_out, written, stdin_buf, typed, forwarded, rpc, chunk,
          read_bytes, echoed, output, pump_end, pump_fault, wpc, wchunk,
          lock_holder, elapsed, drain_exit, exit_status, result,
          commands_file, host_code, calls, orphan_wpc, orphan_wchunk,
          orphan_pty, stolen, max_size, appended, query, limit, found,
          input_end, cleaner, duration, app>>

-----------------------------------------------------------------------------
(* Bounds of the model *)

\* the child writes at most this many bytes
MaxOut == 2
\* the user types at most this many bytes
MaxIn == 1
\* command strings of the splitter specification have at most this length
MaxCmdLen == 3
\* a process calls execute_with_capture at most this many times
MaxCalls == 2
\* at most this many commands are recorded in the log
MaxStore == 2
\* searches ask for at most this many commands
MaxLimit == 2
\* the user of the input pump specification types at most this many bytes
MaxKeys == 5
\* the search query of the browser takes at most this many characters
MaxQuery == 2

(* Program constants *)

\* let timeout = Duration::from_millis(100)
TimeoutMs == 100
\* thread::sleep(Duration::from_millis(10))
SleepMs == 10
\* let mut buffer = [0u8; 8192]
BufSize == 8192
\* i32::MAX, the largest value of ExecutionResult.exit_code
I32Max == 2147483647
\* U+FFFD REPLACEMENT CHARACTER of String::from_utf8_lossy
Replacement == 65533
\* the status of a Rust process whose main returns Err
MainErrCode == 1
\* max_output_size: 100_000
max_output_size == 100000
\* the status of a Rust process that panicked
PanicCode == 101

None == "none"
NoResult == [ok |-> FALSE]

-----------------------------------------------------------------------------
(* Sequences *)

IsPrefix(s, t) == Len(s) <= Len(t) /\ SubSeq(t, 1, Len(s)) = s

Contains(s, t) ==
    \E i \in 0..(Len(s) - Len(t)) : SubSeq(s, i + 1, i + Len(t)) = t

SeqsUpTo(S, n) == UNION {[1..k -> S] : k \in 0..n}

Min(a, b) == IF a <= b THEN a ELSE b

\* The element of a set of one element
Pick(S) == CHOOSE x \in S : TRUE

-----------------------------------------------------------------------------
(* Conversions *)

\* A u32 is [top |-> its bit 31, low |-> its bits 0..30].
U32(top, low) == [top |-> top, low |-> low]

\* `exit_status.exit_code() as i32`, wrong: a saturating conversion.
AsI32Saturating(s) == IF s.top = 0 THEN s.low ELSE I32Max

\* `exit_status.exit_code() as i32`: the same 32 bits read as two's complement.
AsI32(s) == IF s.top = 0 THEN s.low ELSE (s.low - I32Max) - 1

\* A wall-clock reading: before the epoch, or era * 2^63 + tick nanoseconds
\* after it.
Reading(pre, era, tick) == [pre |-> pre, era |-> era, tick |-> tick]

\* What SystemTime::now() reads in a session: a time before the epoch, or
\* one of two successive instants.  The wall clock can be set between two
\* readings, so they come in any order.
ClockReadings == {Reading(TRUE, 0, 0), Reading(FALSE, 0, 0), Reading(FALSE, 0, 1)}

\* `.as_nanos() as i64`: the u128 keeps its low 64 bits, read as two's
\* complement; hi is the multiple of 2^63 (0 or -1), lo the offset.
NarrowI64(r) == [hi |-> 0 - (r.era % 2), lo |-> r.tick]

\* a <= b on i64 values
LeI64(a, b) == a.hi < b.hi \/ (a.hi = b.hi /\ a.lo <= b.lo)

\* The bytes the child can write: 'A', and the two bytes of U+00E9.
Bytes == {65, 195, 169}

\* What a child writes to its terminal, when it runs long enough: the text
\* "\u00E9A", or 'A' followed by bytes that are no text.
ChildScripts == {<<195, 169, 65>>, <<65, 195, 65>>}

IsAscii(b) == b < 128
IsCont(b) == b >= 128 /\ b < 192
IsLead2(b) == b >= 194 /\ b < 224

\* String::from_utf8_lossy on sequences of one- and two-byte code points:
\* the text as a sequence of code points, each invalid byte replaced.
RECURSIVE from_utf8_lossy(_)
from_utf8_lossy(bs) ==
    IF bs = <<>> THEN <<>>
    ELSE LET b == Head(bs) IN
        IF IsAscii(b) THEN <<b>> \o from_utf8_lossy(Tail(bs))
        ELSE IF IsLead2(b) /\ Len(bs) >= 2 /\ IsCont(bs[2])
             THEN <<(b % 32) * 64 + (bs[2] % 64)>> \o from_utf8_lossy(Tail(Tail(bs)))
             ELSE <<Replacement>> \o from_utf8_lossy(Tail(bs))

\* The bytes are the encoding of a text.
ValidUtf8(bs) == \A i \in 1..Len(from_utf8_lossy(bs)) : from_utf8_lossy(bs)[i] # Replacement

-----------------------------------------------------------------------------
(* Command Splitter *)

\* char::is_whitespace on the characters of the model
IsWhitespace(c) == c \in {" ", "\t"}

Chars == {"a", "b", " ", "\t"}

\* str::split_whitespace: the maximal runs of non-whitespace characters.
RECURSIVE SplitFrom(_, _, _)
SplitFrom(s, cur, acc) ==
    IF s = <<>> THEN (IF cur = <<>> THEN acc ELSE Append(acc, cur))
    ELSE IF IsWhitespace(Head(s))
         THEN SplitFrom(Tail(s), <<>>, IF cur = <<>> THEN acc ELSE Append(acc, cur))
         ELSE SplitFrom(Tail(s), Append(cur, Head(s)), acc)

split_whitespace(s) == SplitFrom(s, <<>>, <<>>)

\* target_os = "windows" and PSModulePath is set
PowerShellPath(h) == h.os = "windows" /\ h.ps_module_path

\* the PowerShell executable, wrong: always the legacy one
ps_exe_legacy(h) == <<"powershell.exe">>

\* which::which("pwsh.exe").is_ok()
ps_exe(h) == IF h.pwsh THEN <<"pwsh.exe">> ELSE <<"powershell.exe">>

\* parse_command, wrong: the last token is lost.
parse_command_drop_last(h, cmd) ==
    LET parts == split_whitespace(cmd) IN
    IF Len(parts) <= 1 THEN [program |-> <<>>, args |-> <<>>]
    ELSE [program |-> parts[1], args |-> SubSeq(parts, 2, Len(parts) - 1)]

\* parse_command(command) -> (program, args)
parse_command(h, cmd) ==
    IF PowerShellPath(h)
    THEN [program |-> ps_exe(h),
          args |-> <<<<"-NoProfile">>, <<"-NonInteractive">>, <<"-Command">>, cmd>>]
    ELSE LET parts == split_whitespace(cmd) IN
         IF parts = <<>> THEN [program |-> <<>>, args |-> <<>>]
         ELSE [program |-> parts[1], args |-> SubSeq(parts, 2, Len(parts))]

\* "echo hello world"
EchoHelloWorld ==
    <<"e", "c", "h", "o", " ", "h", "e", "l", "l", "o", " ", "w", "o", "r", "l", "d">>

-----------------------------------------------------------------------------
(* The environment of one Exec invocation *)

Host(os, psm, pwsh) == [os |-> os, ps_module_path |-> psm, pwsh |-> pwsh]

\* Builds and environments a session runs in.
Hosts == {Host("unix", FALSE, FALSE), Host("windows", TRUE, TRUE)}

\* Command strings a session is started with.
SessionCommands == {<<" ", "\t">>, <<"a", " ", "b">>}

\* Statuses exit_status.exit_code() can report: 0..255 from a Unix child,
\* any u32 from a Windows child, such as 0xC0000005 (access violation), which
\* is bit 31 and 1073741829.
Statuses(h) ==
    IF h.os = "unix" THEN {U32(0, 0), U32(0, 1)}
    ELSE {U32(0, 0), U32(1, 1073741829)}

NoTime == [hi |-> 1, lo |-> 0]
NoStatus == [top |-> 2, low |-> 0]

\* The bytes the user types to the first call: 'x'.
Keys == {120}

\* What the user types to the n-th call of the process: 'x', then 'y'.
KeyFor(k, n) == k + (n - 1)

\* No search was made yet.
NoFound == [ok |-> FALSE]

\* No cleanup was started yet.
NoCleaner ==
    [pc |-> "idle", now |-> 0, days |-> [wrapped |-> FALSE, n |-> 0], cutoff |-> 0,
     started |-> 0, before |-> <<>>, keep |-> <<>>, removed |-> 0, off |-> 0, next |-> 1,
     finished |-> 0, asked |-> 0, total |-> 0, announced |-> 0, yes |-> FALSE]

\* The browser was not started.
NoApp ==
    [pc |-> "closed", commands |-> <<>>, filtered_commands |-> <<>>, selected |-> 0,
     scroll |-> 0, search_query |-> <<>>, search_mode |-> FALSE, marked |-> {},
     view_mode |-> "List", should_quit |-> FALSE]

\* Recorder::record was not called yet.
NoDuration ==
    [start |-> NoTime, end |-> NoTime, overflow |-> FALSE, stored |-> FALSE,
     ms |-> [wrapped |-> FALSE, hi |-> 0, lo |-> 0]]

\* The process before its first call: no worker is left over, the Recorder
\* has its default size, nothing was appended or searched.
ProcessInit ==
    /\ calls = 1
    /\ orphan_wpc = "none"
    /\ orphan_wchunk = <<>>
    /\ orphan_pty = <<>>
    /\ stolen = <<>>
    /\ appended = <<>>
    /\ query = <<>>
    /\ limit = 0
    /\ found = NoFound
    /\ cleaner = NoCleaner
    /\ duration = NoDuration
    /\ app = NoApp

SessionInit ==
    /\ pc = "exec"
    /\ err = None
    /\ start_time = NoTime
    /\ end_time = NoTime
    /\ program = <<>>
    /\ args = <<>>
    /\ spawn_attempts = 0
    /\ child = "none"
    /\ child_status = NoStatus
    /\ slave_held = FALSE
    /\ master_held = FALSE
    /\ pty_out = <<>>
    /\ written = <<>>
    /\ stdin_buf = <<>>
    /\ typed = 0
    /\ forwarded = <<>>
    /\ rpc = "none"
    /\ chunk = <<>>
    /\ read_bytes = <<>>
    /\ echoed = <<>>
    /\ output = <<>>
    /\ pump_end = None
    /\ pump_fault = FALSE
    /\ wpc = "none"
    /\ wchunk = <<>>
    /\ input_end = None
    /\ lock_holder = None
    /\ elapsed = 0
    /\ drain_exit = None
    /\ exit_status = NoStatus
    /\ result = NoResult
    /\ commands_file = <<>>
    /\ host_code = 0

\* The sessions checked: both command strings on the splitting path, and a
\* command on the PowerShell path.
Init ==
    /\ host \in Hosts
    /\ command \in SessionCommands
    /\ PowerShellPath(host) => split_whitespace(command) # <<>>
    /\ SessionInit
    /\ ProcessInit
    /\ max_size = max_output_size

envVars == <<host, command>>
timeVars == <<start_time, end_time>>
parseVars == <<program, args>>
childVars == <<child, child_status, pty_out, written>>
handleVars == <<slave_held, master_held>>
inputVars == <<stdin_buf, typed, forwarded, wpc, wchunk, input_end>>
pumpVars == <<rpc, chunk, read_bytes, echoed, output, pump_end, pump_fault, lock_holder>>
drainVars == <<elapsed, drain_exit>>
orphanVars == <<calls, orphan_wpc, orphan_wchunk, orphan_pty, stolen>>
storeVars == <<max_size, appended, query, limit, found, cleaner, duration, app>>
mainVars == <<commands_file, host_code, orphanVars, storeVars>>

-----------------------------------------------------------------------------
(* Session Coordinator: execute_with_capture, one action per statement *)

\* Mutex::lock, wrong: the lock is granted whoever holds the mutex.
lock_always(holder) == TRUE

\* Mutex::lock returns once no thread holds the mutex
lock(holder) == holder = None

\* A `?` of a set-up step, wrong: a failed take_writer is skipped over.
SetupFailedContinue(step) ==
    IF step = "take_writer" THEN [pc |-> "wait", err |-> step]
    ELSE [pc |-> "returned_err", err |-> step]

\* `.context(..)?`: the step's error is returned to the caller.
SetupFailed(step) == [pc |-> "returned_err", err |-> step]

\* Returning Err from execute_with_capture: the locals are dropped, so both
\* ends of `pair` still owned by the function are released.
Fail(step) ==
    /\ pc' = SetupFailed(step).pc
    /\ err' = SetupFailed(step).err
    /\ master_held' = IF SetupFailed(step).pc = "returned_err" THEN FALSE ELSE master_held
    /\ slave_held' = IF SetupFailed(step).pc = "returned_err" THEN FALSE ELSE slave_held

\* spawn_command can only start a program that has a name
SpawnCanSucceed(prog) == prog # <<>>

\* let start_time = SystemTime::now().duration_since(UNIX_EPOCH)?.as_nanos() as i64
StartTime ==
    /\ pc = "exec"
    /\ \/ /\ \E r \in ClockReadings : ~r.pre /\ start_time' = NarrowI64(r)
          /\ pc' = "openpty"
          /\ UNCHANGED <<err, handleVars>>
       \/ /\ \E r \in ClockReadings : r.pre
          /\ Fail("start_time")
          /\ UNCHANGED start_time
    /\ UNCHANGED <<envVars, end_time, parseVars, spawn_attempts, childVars,
                   inputVars, pumpVars, drainVars, exit_status, result, mainVars>>

\* pty_system.openpty(PtySize {..}).context("Failed to open PTY")?
OpenPty ==
    /\ pc = "openpty"
    /\ \/ /\ master_held' = TRUE
          /\ slave_held' = TRUE
          /\ pc' = "parse"
          /\ UNCHANGED err
       \/ Fail("openpty")
    /\ UNCHANGED <<envVars, timeVars, parseVars, spawn_attempts, childVars,
                   inputVars, pumpVars, drainVars, exit_status, result, mainVars>>

\* let (program, args) = parse_command(command)
Parse ==
    /\ pc = "parse"
    /\ program' = parse_command(host, command).program
    /\ args' = parse_command(host, command).args
    /\ pc' = "spawn"
    /\ UNCHANGED <<envVars, err, timeVars, spawn_attempts, childVars, handleVars,
                   inputVars, pumpVars, drainVars, exit_status, result, mainVars>>

\* pair.slave.spawn_command(cmd).context("Failed to spawn command")?
Spawn ==
    /\ pc = "spawn"
    /\ spawn_attempts' = spawn_attempts + 1
    /\ \/ /\ SpawnCanSucceed(program)
          /\ child' = "running"
          /\ pc' = "drop_slave"
          /\ UNCHANGED <<err, handleVars>>
       \/ /\ Fail("spawn")
          /\ UNCHANGED child
    /\ UNCHANGED <<envVars, timeVars, parseVars, child_status, pty_out, written,
                   inputVars, pumpVars, drainVars, exit_status, result, mainVars>>

\* drop of a handle, wrong: the handle stays open, as after mem::forget.
drop_forgets(held) == held

\* drop(handle): the handle is closed
drop(held) == FALSE

\* drop(pair.slave)
DropSlave ==
    /\ pc = "drop_slave"
    /\ slave_held' = drop(slave_held)
    /\ pc' = "clone_reader"
    /\ UNCHANGED <<envVars, err, timeVars, parseVars, spawn_attempts, childVars,
                   master_held, inputVars, pumpVars, drainVars, exit_status,
                   result, mainVars>>

\* pair.master.try_clone_reader().context("Failed to clone reader")?
\* and thread::spawn of the output pump
CloneReader ==
    /\ pc = "clone_reader"
    /\ \/ /\ rpc' = "read"
          /\ pc' = "take_writer"
          /\ UNCHANGED <<err, handleVars>>
       \/ /\ Fail("clone_reader")
          /\ UNCHANGED rpc
    /\ UNCHANGED <<envVars, timeVars, parseVars, spawn_attempts, childVars,
                   inputVars, chunk, read_bytes, echoed, output, pump_end,
                   pump_fault, lock_holder, drainVars, exit_status, result, mainVars>>

\* pair.master.take_writer().context("Failed to get writer")?
\* and thread::spawn of the input pump
TakeWriter ==
    /\ pc = "take_writer"
    /\ \/ /\ wpc' = "read"
          /\ pc' = "wait"
          /\ UNCHANGED <<err, handleVars>>
       \/ /\ Fail("take_writer")
          /\ UNCHANGED wpc
    /\ UNCHANGED <<envVars, timeVars, parseVars, spawn_attempts, childVars,
                   stdin_buf, typed, forwarded, wchunk, input_end, pumpVars,
                   drainVars, exit_status, result, mainVars>>

\* let exit_status = child.wait().context("Failed to wait for child")?
Wait ==
    /\ pc = "wait"
    /\ \/ /\ child = "exited"
          /\ exit_status' = child_status
          /\ pc' = "drop_master"
          /\ UNCHANGED <<err, handleVars>>
       \/ /\ Fail("wait")
          /\ UNCHANGED exit_status
    /\ UNCHANGED <<envVars, timeVars, parseVars, spawn_attempts, childVars,
                   inputVars, pumpVars, drainVars, result, mainVars>>

\* drop(pair.master); let start = Instant::now()
DropMaster ==
    /\ pc = "drop_master"
    /\ master_held' = drop(master_held)
    /\ elapsed' = 0
    /\ pc' = "drain"
    /\ UNCHANGED <<envVars, err, timeVars, parseVars, spawn_attempts, childVars,
                   slave_held, inputVars, pumpVars, drain_exit, exit_status,
                   result, mainVars>>

\* join_handle.is_finished(), wrong: the wait is for both workers.
all_finished == rpc = "done" /\ wpc = "done"

\* join_handle.is_finished()
is_finished == rpc = "done"

\* The loop condition, wrong: an unbounded join of the output pump.
DrainJoins(finished, el) == ~finished

\* !join_handle.is_finished() && start.elapsed() < timeout
DrainContinues(finished, el) == ~finished /\ el < TimeoutMs

\* while !join_handle.is_finished() && start.elapsed() < timeout { sleep(10ms) }
\* A sleep lasts at least SleepMs; elapsed is kept up to TimeoutMs, and
\* forgotten after the loop, where `start` is not read again.
Drain ==
    /\ pc = "drain"
    /\ \/ /\ ~DrainContinues(is_finished, elapsed)
          /\ drain_exit' = IF is_finished THEN "finished" ELSE "timeout"
          /\ pc' = "end_time"
          /\ elapsed' = 0
       \/ /\ DrainContinues(is_finished, elapsed)
          /\ elapsed' \in {Min(elapsed + SleepMs, TimeoutMs), TimeoutMs}
          /\ UNCHANGED <<pc, drain_exit>>
    /\ UNCHANGED <<envVars, err, timeVars, parseVars, spawn_attempts, childVars,
                   handleVars, inputVars, pumpVars, exit_status, result, mainVars>>

\* let end_time = SystemTime::now().duration_since(UNIX_EPOCH)?.as_nanos() as i64
EndTime ==
    /\ pc = "end_time"
    /\ \/ /\ \E r \in ClockReadings : ~r.pre /\ end_time' = NarrowI64(r)
          /\ pc' = "lock"
          /\ UNCHANGED <<err, handleVars>>
       \/ /\ \E r \in ClockReadings : r.pre
          /\ Fail("end_time")
          /\ UNCHANGED end_time
    /\ UNCHANGED <<envVars, start_time, parseVars, spawn_attempts, childVars,
                   inputVars, pumpVars, drainVars, exit_status, result, mainVars>>

\* let output_bytes = output.lock().unwrap()
Lock ==
    /\ pc = "lock"
    /\ lock(lock_holder)
    /\ lock_holder' = "coordinator"
    /\ pc' = "build"
    /\ UNCHANGED <<envVars, err, timeVars, parseVars, spawn_attempts, childVars,
                   handleVars, inputVars, rpc, chunk, read_bytes, echoed, output,
                   pump_end, pump_fault, drainVars, exit_status, result, mainVars>>

\* The return of execute_with_capture, wrong: the pump's own outcome is
\* propagated, as a joined io::Result would be.
ExecuteReturnJoined(pumpEnd) ==
    IF pumpEnd = "error" THEN "returned_err" ELSE "returned_ok"

\* Ok(ExecutionResult {..}): the pump's outcome is never looked at.
ExecuteReturn(pumpEnd) == "returned_ok"

\* ExecutionResult { output, exit_code, start_time, end_time }
ExecutionResult(bytes, status, st, et) ==
    [ok |-> TRUE,
     output |-> from_utf8_lossy(bytes),
     exit_code |-> AsI32(status),
     start_time |-> st,
     end_time |-> et]

\* String::from_utf8_lossy(&output_bytes), exit_status.exit_code() as i32,
\* Ok(ExecutionResult {..}); the guard output_bytes is dropped on return.
Return ==
    /\ pc = "build"
    /\ pc' = ExecuteReturn(pump_end)
    /\ result' = IF ExecuteReturn(pump_end) = "returned_ok"
                 THEN ExecutionResult(output, exit_status, start_time, end_time)
                 ELSE NoResult
    /\ err' = IF ExecuteReturn(pump_end) = "returned_ok" THEN err ELSE "pump"
    /\ lock_holder' = None
    /\ UNCHANGED <<envVars, timeVars, parseVars, spawn_attempts, childVars,
                   handleVars, inputVars, rpc, chunk, read_bytes, echoed, output,
                   pump_end, pump_fault, drainVars, exit_status, mainVars>>

-----------------------------------------------------------------------------
(* The child and the user *)

\* The child writes one byte to its terminal.
ChildWrite ==
    /\ child = "running"
    /\ pc # "exited"
    /\ Len(written) < MaxOut
    /\ \E b \in Bytes :
        /\ \E sc \in ChildScripts : IsPrefix(Append(written, b), sc)
        /\ pty_out' = Append(pty_out, b)
        /\ written' = Append(written, b)
    /\ UNCHANGED <<envVars, pc, err, timeVars, parseVars, spawn_attempts, child,
                   child_status, handleVars, inputVars, pumpVars, drainVars,
                   exit_status, result, mainVars>>

\* The child exits with a status of its platform.
ChildExit ==
    /\ child = "running"
    /\ pc # "exited"
    /\ child' = "exited"
    /\ child_status' \in Statuses(host)
    /\ UNCHANGED <<envVars, pc, err, timeVars, parseVars, spawn_attempts, pty_out,
                   written, handleVars, inputVars, pumpVars, drainVars,
                   exit_status, result, mainVars>>

\* The user types one byte on the real terminal.
UserType ==
    /\ pc # "exited"
    /\ typed < MaxIn
    /\ \E k \in Keys : stdin_buf' = Append(stdin_buf, KeyFor(k, calls))
    /\ typed' = typed + 1
    /\ UNCHANGED <<envVars, pc, err, timeVars, parseVars, spawn_attempts, childVars,
                   handleVars, forwarded, wpc, wchunk, input_end, pumpVars,
                   drainVars, exit_status, result, mainVars>>

-----------------------------------------------------------------------------
(* Output Pump: read_thread *)

\* reader.read(&mut buffer) returns Ok(n), n > 0
PumpRead ==
    /\ rpc = "read"
    /\ pty_out # <<>>
    /\ \E n \in 1..Min(Len(pty_out), BufSize) :
        /\ chunk' = SubSeq(pty_out, 1, n)
        /\ pty_out' = SubSeq(pty_out, n + 1, Len(pty_out))
        /\ read_bytes' = read_bytes \o SubSeq(pty_out, 1, n)
    /\ rpc' = "echo"
    /\ UNCHANGED <<envVars, pc, err, timeVars, parseVars, spawn_attempts, child,
                   child_status, written, handleVars, inputVars, echoed, output,
                   pump_end, pump_fault, lock_holder, drainVars, exit_status,
                   result, mainVars>>

\* reader.read returns Ok(0): every child-side handle is closed and nothing
\* is left to read.  The platform may never deliver it.
PumpEof ==
    /\ rpc = "read"
    /\ pty_out = <<>>
    /\ child = "exited"
    /\ ~slave_held
    /\ rpc' = "done"
    /\ pump_end' = "eof"
    /\ UNCHANGED <<envVars, pc, err, timeVars, parseVars, spawn_attempts, childVars,
                   handleVars, inputVars, chunk, read_bytes, echoed, output,
                   pump_fault, lock_holder, drainVars, exit_status, result, mainVars>>

\* reader.read returns Err(_)
PumpReadErr ==
    /\ rpc = "read"
    /\ rpc' = "done"
    /\ pump_end' = "error"
    /\ UNCHANGED <<envVars, pc, err, timeVars, parseVars, spawn_attempts, childVars,
                   handleVars, inputVars, chunk, read_bytes, echoed, output,
                   pump_fault, lock_holder, drainVars, exit_status, result, mainVars>>

\* The terminal write, wrong: the bytes are dropped without an error.
write_all_nothing(term, bytes) == term

\* The write, wrong: the bytes are written twice.
write_all_twice(term, bytes) == term \o bytes \o bytes

\* write_all(&buffer[..n]) and flush() that succeed, on stdout or on the
\* writer of the controller side: what the receiver has got
write_all(term, bytes) == term \o bytes

\* let _ = stdout.write_all(&buffer[..n]); let _ = stdout.flush();
\* both results are discarded
PumpEcho ==
    /\ rpc = "echo"
    /\ \/ /\ echoed' = write_all(echoed, chunk)
          /\ UNCHANGED pump_fault
       \/ /\ pump_fault' = TRUE
          /\ UNCHANGED echoed
    /\ rpc' = "lock"
    /\ UNCHANGED <<envVars, pc, err, timeVars, parseVars, spawn_attempts, childVars,
                   handleVars, inputVars, chunk, read_bytes, output, pump_end,
                   lock_holder, drainVars, exit_status, result, mainVars>>

\* if let Ok(mut out) = output_clone.lock()
PumpLock ==
    /\ rpc = "lock"
    /\ lock(lock_holder)
    /\ lock_holder' = "pump"
    /\ rpc' = "append"
    /\ UNCHANGED <<envVars, pc, err, timeVars, parseVars, spawn_attempts, childVars,
                   handleVars, inputVars, chunk, read_bytes, echoed, output,
                   pump_end, pump_fault, drainVars, exit_status, result, mainVars>>

\* The append, wrong: the chunk is put in front of the buffer.
extend_prepends(out, slice) == slice \o out

\* The append, wrong: the buffer is overwritten by the chunk.
extend_overwrites(out, slice) == slice

\* out.extend_from_slice(&buffer[..n])
extend_from_slice(out, slice) == out \o slice

\* The end of the Ok(n) arm, wrong: the loop is left after one chunk.
loop_breaks == "done"

\* The end of the Ok(n) arm: `loop` goes back to reader.read
loop_continues == "read"

\* The end of the `if let Ok(mut out)` block, wrong: the guard lives on.
guard_kept(holder) == holder

\* The end of the `if let Ok(mut out)` block: the MutexGuard is dropped
guard_dropped(holder) == None

\* out.extend_from_slice(&buffer[..n]); the guard is dropped
PumpAppend ==
    /\ rpc = "append"
    /\ output' = extend_from_slice(output, chunk)
    /\ chunk' = <<>>
    /\ lock_holder' = guard_dropped(lock_holder)
    /\ rpc' = loop_continues
    /\ UNCHANGED <<envVars, pc, err, timeVars, parseVars, spawn_attempts, childVars,
                   handleVars, inputVars, read_bytes, echoed, pump_end, pump_fault,
                   drainVars, exit_status, result, mainVars>>

-----------------------------------------------------------------------------
(* Input Pump: the stdin thread *)

\* stdin.read(&mut buffer) returns Ok(n), n > 0
InputRead ==
    /\ wpc = "read"
    /\ stdin_buf # <<>>
    /\ \E n \in 1..Min(Len(stdin_buf), BufSize) :
        /\ wchunk' = SubSeq(stdin_buf, 1, n)
        /\ stdin_buf' = SubSeq(stdin_buf, n + 1, Len(stdin_buf))
    /\ wpc' = "write"
    /\ UNCHANGED <<envVars, pc, err, timeVars, parseVars, spawn_attempts, childVars,
                   handleVars, typed, forwarded, input_end, pumpVars, drainVars,
                   exit_status, result, mainVars>>

\* stdin.read returns Ok(0), the end of the input with nothing left to
\* read, or Err(_): break
InputReadEnd ==
    /\ wpc = "read"
    /\ wpc' = "done"
    /\ \/ stdin_buf = <<>> /\ input_end' = "eof"
       \/ input_end' = "error"
    /\ UNCHANGED <<envVars, pc, err, timeVars, parseVars, spawn_attempts, childVars,
                   handleVars, stdin_buf, typed, forwarded, wchunk, pumpVars,
                   drainVars, exit_status, result, mainVars>>

\* writer.write_all(&buffer[..n]) and writer.flush(): both succeed, or
\* write_all fails after a part of the chunk, or flush fails; a failure
\* breaks the loop
InputWrite ==
    /\ wpc = "write"
    /\ \/ /\ forwarded' = write_all(forwarded, wchunk)
          /\ wpc' = "read"
          /\ UNCHANGED input_end
       \/ /\ \E k \in 0..(Len(wchunk) - 1) : forwarded' = forwarded \o SubSeq(wchunk, 1, k)
          /\ wpc' = "done"
          /\ input_end' = "error"
       \/ /\ forwarded' = forwarded \o wchunk
          /\ wpc' = "done"
          /\ input_end' = "error"
    /\ wchunk' = <<>>
    /\ UNCHANGED <<envVars, pc, err, timeVars, parseVars, spawn_attempts, childVars,
                   handleVars, stdin_buf, typed, pumpVars, drainVars, exit_status,
                   result, mainVars>>

\* The output pump owns `reader`, the clone of the controller side, from
\* its start until its closure returns.
reader_held == rpc \in {"read", "echo", "lock", "append"}

\* The input pump owns `writer`, the writing handle of the controller side,
\* from its start until its closure returns.
writer_held == wpc \in {"read", "write"}

\* The components that hold an open handle to the controller side
ControllerHolders ==
    {c \in {"coordinator", "output_pump", "input_pump"} :
        \/ c = "coordinator" /\ master_held
        \/ c = "output_pump" /\ reader_held
        \/ c = "input_pump" /\ writer_held}

-----------------------------------------------------------------------------
(* Invocation layer: main, Commands::Exec *)

\* The threads of a process end with it.
Killed(p) == IF p \in {"none", "done"} THEN p ELSE "killed"

\* The host process terminates with `code`.
Terminate(code) ==
    /\ host_code' = code
    /\ pc' = "exited"
    /\ rpc' = Killed(rpc)
    /\ wpc' = Killed(wpc)

\* The step of main after execute_with_capture returned Err, wrong: the
\* command is recorded all the same.
AfterErrRecord == "recorder_new"

\* `execute_with_capture(..)?`: main returns the error.
AfterErr == "return_err"

\* let result = pty_capture::execute_with_capture(&command_str, &cwd)?
\* main returns Err: the error is printed and the process ends with status 1.
MainErr ==
    /\ pc = "returned_err"
    /\ IF AfterErr = "return_err"
       THEN Terminate(MainErrCode)
       ELSE pc' = AfterErr /\ UNCHANGED <<host_code, rpc, wpc>>
    /\ UNCHANGED <<envVars, err, timeVars, parseVars, spawn_attempts, childVars,
                   handleVars, stdin_buf, typed, forwarded, wchunk, input_end, chunk,
                   read_bytes, echoed, output, pump_end, pump_fault, lock_holder,
                   drainVars, exit_status, result, commands_file, orphanVars,
                   storeVars>>

-----------------------------------------------------------------------------
(* Recorder and Storage.  A text is the sequence of its code points. *)

\* str::len of a text: the length of its UTF-8 encoding
Utf8Len(c) == IF c < 128 THEN 1 ELSE IF c < 2048 THEN 2 ELSE 3

RECURSIVE StrLen(_)
StrLen(text) == IF text = <<>> THEN 0 ELSE Utf8Len(Head(text)) + StrLen(Tail(text))

\* str::is_char_boundary
is_char_boundary(text, k) == \E i \in 0..Len(text) : StrLen(SubSeq(text, 1, i)) = k

\* `{}` of a usize: its decimal digits
RECURSIVE Digits(_)
Digits(n) == IF n < 10 THEN <<48 + n>> ELSE Digits(n \div 10) \o <<48 + (n % 10)>>

\* "...\n[Output truncated: {} bytes total]"
Marker(total) ==
    <<46, 46, 46, 10, 91, 79, 117, 116, 112, 117, 116, 32, 116, 114, 117, 110,
      99, 97, 116, 101, 100, 58, 32>>
    \o Digits(total)
    \o <<32, 98, 121, 116, 101, 115, 32, 116, 111, 116, 97, 108, 93>>

\* Recorder::truncate_output: the text stored.  &output[..max] panics when
\* max is not a character boundary of the text.
truncate_output(out, max) ==
    IF StrLen(out) <= max THEN [panic |-> FALSE, text |-> out]
    ELSE IF is_char_boundary(out, max)
         THEN [panic |-> FALSE,
               text |-> SubSeq(out, 1,
                           CHOOSE i \in 0..Len(out) : StrLen(SubSeq(out, 1, i)) = max)
                        \o Marker(StrLen(out))]
         ELSE [panic |-> TRUE, text |-> <<>>]

\* the Command built by Recorder::record; id, duration_ms, session_id, shell,
\* hostname and username are left out
Command(cmd, out, code, st, cwd) ==
    [command |-> cmd, output |-> out, exit_code |-> code, cwd |-> cwd, started_at |-> st]

NoCommand == Command(<<>>, <<>>, 0, NoTime, <<>>)

\* serde_json's string escapes, wrong: the line feed is written as it is.
EscapeChar_raw_lf(c) ==
    IF c = 34 THEN <<92, 34>>
    ELSE IF c = 92 THEN <<92, 92>>
    ELSE IF c = 13 THEN <<92, 114>>
    ELSE IF c = 9 THEN <<92, 116>>
    ELSE <<c>>

\* serde_json's string escapes: \" \\ \n \r \t
EscapeChar(c) ==
    IF c = 34 THEN <<92, 34>>
    ELSE IF c = 92 THEN <<92, 92>>
    ELSE IF c = 10 THEN <<92, 110>>
    ELSE IF c = 13 THEN <<92, 114>>
    ELSE IF c = 9 THEN <<92, 116>>
    ELSE <<c>>

\* The concatenation of the texts parts[lo], .., parts[hi]
RECURSIVE ConcatRange(_, _, _)
ConcatRange(parts, lo, hi) ==
    IF lo > hi THEN <<>>
    ELSE IF lo = hi THEN parts[lo]
    ELSE ConcatRange(parts, lo, (lo + hi) \div 2)
         \o ConcatRange(parts, ((lo + hi) \div 2) + 1, hi)

Escape(text) == ConcatRange([i \in 1..Len(text) |-> EscapeChar(text[i])], 1, Len(text))

\* a JSON string
Quoted(text) == <<34>> \o Escape(text) \o <<34>>

\* a JSON number
IntText(n) == IF n < 0 THEN <<45>> \o Digits(0 - n) ELSE Digits(n)

\* The text of a DateTime<Utc>: serde writes the instant in RFC 3339 with its
\* nanoseconds, here the sign of its era and the nanoseconds in the era.
TimeText(t) == (IF t.hi < 0 THEN <<45>> ELSE <<>>) \o Digits(t.lo)

\* serde_json::to_string(cmd): the object's values in the order of the
\* struct; the keys are fixed text and left out
to_string(cmd) ==
    <<123>> \o Quoted(cmd.command)
    \o <<44>> \o Quoted(cmd.output)
    \o <<44>> \o IntText(cmd.exit_code)
    \o <<44>> \o Quoted(cmd.cwd)
    \o <<44>> \o Quoted(TimeText(cmd.started_at))
    \o <<125>>

\* the character at position i of s is c
Expect(s, i, c) == i <= Len(s) /\ s[i] = c

BadText == [ok |-> FALSE, val |-> <<>>, next |-> 0]
BadInt == [ok |-> FALSE, val |-> 0, next |-> 0]

\* the number of backslashes that stand directly before position j, looking
\* back no further than position from
Backslashes(s, from, j) ==
    LET stops == {from - 1} \cup {k \in from..(j - 1) : s[k] # 92}
    IN (j - 1) - (CHOOSE k \in stops : \A m \in stops : m <= k)

\* the backslash at position p of the inside of a JSON string starts an escape
IsEscape(in, p) == in[p] = 92 /\ Backslashes(in, 1, p) % 2 = 0

\* the character an escape stands for
Unescaped(c) == IF c = 110 THEN 10 ELSE IF c = 114 THEN 13 ELSE IF c = 116 THEN 9 ELSE c

\* the inside of a JSON string is well formed: every escape is one of
\* \" \\ \n \r \t and no control character stands unescaped
WellEscaped(in) ==
    \A p \in 1..Len(in) :
        /\ IsEscape(in, p) => p < Len(in) /\ in[p + 1] \in {34, 92, 110, 114, 116}
        /\ in[p] >= 32

\* the text the inside of a JSON string stands for
Unescape(in) ==
    ConcatRange([p \in 1..Len(in) |->
                    IF IsEscape(in, p) THEN <<>>
                    ELSE IF p > 1 /\ IsEscape(in, p - 1) THEN <<Unescaped(in[p])>>
                    ELSE <<in[p]>>],
                1, Len(in))

\* the JSON string between the quotes at positions i and j
StringBetween(s, i, j) ==
    Pick({IF WellEscaped(in) THEN [ok |-> TRUE, val |-> Unescape(in), next |-> j + 1]
          ELSE BadText : in \in {SubSeq(s, i + 1, j - 1)}})

\* the JSON string that starts at position i: its text, and the position
\* after its closing quote, the first quote no escape covers
ReadString(s, i) ==
    IF ~(i <= Len(s) /\ s[i] = 34) THEN BadText
    ELSE Pick({IF closing = {} THEN BadText
               ELSE StringBetween(s, i, CHOOSE k \in closing : \A m \in closing : k <= m)
               : closing \in {{j \in (i + 1)..Len(s) :
                                 s[j] = 34 /\ Backslashes(s, i + 1, j) % 2 = 0}}})

\* the digits of a number from position i on
RECURSIVE ScanDigits(_, _, _, _)
ScanDigits(s, i, n, seen) ==
    IF i <= Len(s) /\ s[i] >= 48 /\ s[i] <= 57
    THEN ScanDigits(s, i + 1, n * 10 + (s[i] - 48), TRUE)
    ELSE [ok |-> seen, val |-> n, next |-> i]

ReadInt(s, i) ==
    Pick({IF d.ok
          THEN [ok |-> TRUE,
                val |-> IF Expect(s, i, 45) THEN 0 - d.val ELSE d.val,
                next |-> d.next]
          ELSE BadInt
          : d \in {ScanDigits(s, IF Expect(s, i, 45) THEN i + 1 ELSE i, 0, FALSE)}})

\* the DateTime<Utc> a text stands for
ParseTime(text) ==
    Pick({[ok |-> d.ok /\ d.next = Len(text) + 1,
           val |-> [hi |-> IF Expect(text, 1, 45) THEN 0 - 1 ELSE 0, lo |-> d.val]]
          : d \in {ScanDigits(text, IF Expect(text, 1, 45) THEN 2 ELSE 1, 0, FALSE)}})

BadValues == [ok |-> FALSE, vals |-> <<>>, next |-> 0]

\* the values of a JSON object from position i on, of the given kinds and
\* with a comma between two of them
RECURSIVE ReadValues(_, _, _, _)
ReadValues(line, i, kinds, acc) ==
    Pick({IF ~r.ok THEN BadValues
          ELSE IF Len(kinds) = 1
               THEN [ok |-> TRUE, vals |-> Append(acc, r.val), next |-> r.next]
          ELSE IF Expect(line, r.next, 44)
               THEN ReadValues(line, r.next + 1, Tail(kinds), Append(acc, r.val))
               ELSE BadValues
          : r \in {IF Head(kinds) = "text" THEN ReadString(line, i) ELSE ReadInt(line, i)}})

\* the kinds of the values of a Command: command, output, exit_code, cwd,
\* started_at
CommandKinds == <<"text", "text", "int", "text", "text">>

\* serde_json::from_str::<Command>(&line)
from_str(line) ==
    IF ~Expect(line, 1, 123) THEN [ok |-> FALSE, cmd |-> NoCommand]
    ELSE Pick({IF r.ok /\ Expect(line, r.next, 125) /\ r.next = Len(line)
                  /\ ParseTime(r.vals[5]).ok
               THEN [ok |-> TRUE,
                     cmd |-> Command(r.vals[1], r.vals[2], r.vals[3],
                                     ParseTime(r.vals[5]).val, r.vals[4])]
               ELSE [ok |-> FALSE, cmd |-> NoCommand]
               : r \in {ReadValues(line, 2, CommandKinds, <<>>)}})

\* the line that starts at position i of the file: up to the next line feed
\* or the end, a carriage return before the line feed dropped
LineAt(file, i) ==
    LET ends == {Len(file) + 1} \cup {j \in i..Len(file) : file[j] = 10}
        e == CHOOSE j \in ends : \A m \in ends : j <= m
    IN IF e <= Len(file) /\ e > i /\ file[e - 1] = 13
       THEN SubSeq(file, i, e - 2)
       ELSE SubSeq(file, i, e - 1)

\* BufRead::lines: the text between line feeds; no line after the last line
\* feed
lines(file) ==
    ConcatRange([i \in 1..Len(file) |->
                    IF i = 1 \/ file[i - 1] = 10 THEN <<LineAt(file, i)>> ELSE <<>>],
                1, Len(file))

\* line.trim().is_empty()
IsBlank(line) == \A i \in 1..Len(line) : line[i] \in {32, 9, 13, 10}

\* Storage::append_command: writeln!(file, "{}", json) on a file opened for
\* appending.  The log is kept as the sequence of its lines: every write ends
\* with a line feed, so the lines of the file are the lines of what was
\* written, in order.
append_command(file, cmd) == file \o lines(to_string(cmd) \o <<10>>)

\* Storage::read_all_commands: the commands of the lines that are not blank,
\* or an error when one of them is no Command
read_all_commands(file) ==
    Pick({IF \A i \in 1..Len(ps) : ps[i].ok
          THEN [ok |-> TRUE, commands |-> [i \in 1..Len(ps) |-> ps[i].cmd]]
          ELSE [ok |-> FALSE, commands |-> <<>>]
          : ps \in {[i \in 1..Len(ls) |-> from_str(ls[i])] :
                       ls \in {SelectSeq(file, LAMBDA l : ~IsBlank(l))}}})

\* char::to_lowercase on ASCII and Latin-1 letters
Lower(c) ==
    IF (c >= 65 /\ c <= 90) \/ (c >= 192 /\ c <= 222 /\ c # 215) THEN c + 32 ELSE c

\* str::to_lowercase, wrong: the text as it is
keep_case(text) == text

\* str::to_lowercase
to_lowercase(text) == [i \in 1..Len(text) |-> Lower(text[i])]

\* the filter of search_commands
Matches(cmd, q) ==
    \/ Contains(to_lowercase(cmd.command), to_lowercase(q))
    \/ Contains(to_lowercase(cmd.cwd), to_lowercase(q))
    \/ Contains(to_lowercase(cmd.output), to_lowercase(q))

\* One step of the stable sort by |a, b| b.started_at.cmp(&a.started_at):
\* x goes behind the elements that are not older than it.
InsertByStart(sorted, x) ==
    LET k == Cardinality({i \in 1..Len(sorted) : LeI64(x.started_at, sorted[i].started_at)})
    IN SubSeq(sorted, 1, k) \o <<x>> \o SubSeq(sorted, k + 1, Len(sorted))

\* results.sort_by(|a, b| b.started_at.cmp(&a.started_at))
RECURSIVE SortInto(_, _)
SortInto(sorted, rest) ==
    IF rest = <<>> THEN sorted ELSE SortInto(InsertByStart(sorted, Head(rest)), Tail(rest))

\* Vec::truncate
truncate(v, n) == SubSeq(v, 1, Min(n, Len(v)))

\* Storage::search_commands
search_commands(file, q, n) ==
    Pick({IF ~all.ok THEN [ok |-> FALSE, commands |-> <<>>]
          ELSE [ok |-> TRUE,
                commands |-> truncate(SortInto(<<>>,
                                 SelectSeq(all.commands, LAMBDA c : Matches(c, q))), n)]
          : all \in {read_all_commands(file)}})

\* An i64 of nanoseconds is [hi, lo] and stands for hi * 2^63 + lo: near zero
\* with hi = 0, from i64::MIN upwards with hi = -1 and lo >= 0, up to
\* i64::MAX with hi = 1 and lo < 0.
I64(hi, lo) == [hi |-> hi, lo |-> lo]

\* 1_000_000 nanoseconds in a millisecond
NanosPerMilli == 1000000
\* 2^63 is MilliHi * 1_000_000 + MilliRest; the i64 of milliseconds [hi, lo]
\* stands for hi * MilliHi + lo
MilliRest == 775808

\* end_time - start_time on i64 with the overflow ignored: the difference
\* modulo 2^64, and whether it left the range of i64
wrapping_sub(a, b) ==
    Pick({IF h = 0 \/ (h = 0 - 1 /\ l >= 0) \/ (h = 1 /\ l < 0)
          THEN [overflow |-> FALSE, val |-> I64(h, l)]
          ELSE [overflow |-> TRUE,
                val |-> IF h = 2 \/ h = 0 - 2 THEN I64(0, l)
                        ELSE IF h = 1 THEN I64(0 - 1, l) ELSE I64(1, l)]
          : h \in {a.hi - b.hi}, l \in {a.lo - b.lo}})

\* a / b on integers: the quotient rounded towards zero
TruncDiv(a, b) == IF a >= 0 THEN a \div b ELSE 0 - ((0 - a) \div b)

\* v / 1_000_000 on i64
DivMillion(v) ==
    IF v.hi = 0 THEN I64(0, TruncDiv(v.lo, NanosPerMilli))
    ELSE IF v.hi = 1 THEN I64(1, (MilliRest + v.lo) \div NanosPerMilli)
    ELSE I64(0 - 1, 0 - ((MilliRest - v.lo) \div NanosPerMilli))

\* v < 0 on i64
Negative(v) == v.hi < 0 \/ (v.hi = 0 /\ v.lo < 0)

\* `v as u64`: the same 64 bits; wrapped says that the u64 is 2^64 more than
\* the value of hi and lo
as_u64(v) == [wrapped |-> Negative(v), hi |-> v.hi, lo |-> v.lo]

\* let duration_ms = ((end_time - start_time) / 1_000_000) as u64: whether
\* the subtraction overflowed, and the value when it is carried on with
duration_ms(start, end) ==
    Pick({[overflow |-> d.overflow, ms |-> as_u64(DivMillion(d.val))]
          : d \in {wrapping_sub(end, start)}})

\* Recorder::record on a log file: the panic of truncate_output, or the
\* Command built and the file after append_command
record(file, max, cmd, out, code, st, cwd) ==
    Pick({IF t.panic THEN [panic |-> TRUE, file |-> file, cmd |-> NoCommand]
          ELSE [panic |-> FALSE,
                file |-> append_command(file, Command(cmd, t.text, code, st, cwd)),
                cmd |-> Command(cmd, t.text, code, st, cwd)]
          : t \in {truncate_output(out, max)}})

\* What record computed from its times, and whether its Command was stored
Recorded(st, et, stored) ==
    Pick({[start |-> st, end |-> et, overflow |-> d.overflow, stored |-> stored,
           ms |-> d.ms]
          : d \in {duration_ms(st, et)}})

\* the code point of a character of a command string
CodeOf(c) ==
    CASE c = "a" -> 97 [] c = "b" -> 98 [] c = " " -> 32 [] c = "\t" -> 9 [] OTHER -> 63

CodePoints(str) == [i \in 1..Len(str) |-> CodeOf(str[i])]

\* std::env::current_dir(): "/"
Cwd == <<47>>

\* let recorder = recorder::Recorder::new()?;
\* recorder.record(command_str, result.output, result.exit_code, ..)?;
\* std::process::exit(result.exit_code)
\* Storage::append_command adds one line to the commands file.  The three
\* statements touch nothing the pumps touch and are one step; a `?` that
\* fails makes main return Err, a panic ends the process with PanicCode.
MainOk ==
    /\ pc \in {"returned_ok", "recorder_new"}
    /\ \/ /\ err' = "recorder_new"
          /\ Terminate(MainErrCode)
          /\ UNCHANGED <<commands_file, appended, duration>>
       \/ /\ err' = "record"
          /\ Terminate(MainErrCode)
          /\ duration' = Recorded(result.start_time, result.end_time, FALSE)
          /\ UNCHANGED <<commands_file, appended>>
       \/ /\ duration_ms(result.start_time, result.end_time).overflow
          /\ err' = "panic"
          /\ Terminate(PanicCode)
          /\ duration' = Recorded(result.start_time, result.end_time, FALSE)
          /\ UNCHANGED <<commands_file, appended>>
       \/ \E r \in {record(commands_file, max_size, CodePoints(command), result.output,
                            result.exit_code, result.start_time, Cwd)} :
             IF r.panic
             THEN /\ err' = "panic"
                  /\ Terminate(PanicCode)
                  /\ duration' = Recorded(result.start_time, result.end_time, FALSE)
                  /\ UNCHANGED <<commands_file, appended>>
             ELSE /\ commands_file' = r.file
                  /\ appended' = Append(appended, r.cmd)
                  /\ Terminate(result.exit_code)
                  /\ duration' = Recorded(result.start_time, result.end_time, TRUE)
                  /\ UNCHANGED err
    /\ UNCHANGED <<envVars, timeVars, parseVars, spawn_attempts, childVars,
                   handleVars, stdin_buf, typed, forwarded, wchunk, input_end, chunk,
                   read_bytes, echoed, output, pump_end, pump_fault, lock_holder,
                   drainVars, exit_status, result, orphanVars, max_size, query,
                   limit, found, cleaner, app>>

-----------------------------------------------------------------------------
(* The specification of one Exec invocation *)

Coordinator ==
    \/ StartTime \/ OpenPty \/ Parse \/ Spawn \/ DropSlave \/ CloneReader
    \/ TakeWriter \/ Wait \/ DropMaster \/ Drain \/ EndTime \/ Lock \/ Return

Main == MainErr \/ MainOk

OutputPump == PumpRead \/ PumpEof \/ PumpReadErr \/ PumpEcho \/ PumpLock \/ PumpAppend

InputPump == InputRead \/ InputReadEnd \/ InputWrite

Environment == ChildWrite \/ ChildExit \/ UserType

Next == Coordinator \/ Main \/ OutputPump \/ InputPump \/ Environment

Spec == Init /\ [][Next]_vars

\* child.wait() returns once the child has exited.
WaitReturns == child = "exited" /\ Wait

\* The steps of the main thread that do not block: every statement but the
\* wait on a running child and the lock of a held mutex.
CoordinatorRuns ==
    \/ StartTime \/ OpenPty \/ Parse \/ Spawn \/ DropSlave \/ CloneReader
    \/ TakeWriter \/ WaitReturns \/ DropMaster \/ Drain \/ EndTime \/ Lock
    \/ Return \/ Main

\* Threads are scheduled: the main thread runs while it is not blocked, and
\* the output pump, once it holds the mutex, appends and releases it.  No
\* read of the controller side or of stdin, and no write to the terminal,
\* is assumed to return.
FairSpec == Init /\ [][Next]_vars /\ WF_vars(CoordinatorRuns) /\ WF_vars(PumpAppend)

-----------------------------------------------------------------------------
(* The specification of the Command Splitter alone *)

\* Every build and environment parse_command can run in.
AllHosts ==
    {Host(os, psm, pwsh) : os \in {"unix", "windows"}, psm \in BOOLEAN, pwsh \in BOOLEAN}

ParseInit ==
    /\ host \in AllHosts
    /\ command \in SeqsUpTo(Chars, MaxCmdLen) \cup {EchoHelloWorld}
    /\ SessionInit
    /\ ProcessInit
    /\ max_size = max_output_size

\* parse_command is called on the command string
ParseCall ==
    /\ pc = "exec"
    /\ pc' = "parse"
    /\ UNCHANGED <<envVars, err, timeVars, parseVars, spawn_attempts, childVars,
                   handleVars, inputVars, pumpVars, drainVars, exit_status,
                   result, mainVars>>

ParseSpec == ParseInit /\ [][ParseCall \/ Parse]_vars

-----------------------------------------------------------------------------
(* A process that calls execute_with_capture more than once, as the test    *)
(* harness of pty_capture.rs does                                            *)

\* What the output pump of a returned call can still write to the terminal:
\* the chunk it is about to write and what it has not read from its PTY, while
\* it runs.  Its appends go to a buffer nobody reads any more.
Orphaned(p, ch, unread) ==
    IF p \in {"none", "done"} THEN <<>>
    ELSE IF p = "echo" THEN ch \o unread
    ELSE unread

\* execute_with_capture is called again after it returned a result.  The
\* call's locals are new; the threads of the earlier call were never joined
\* and run on, with the handles they own; the real terminal is the same, and
\* `echoed` starts again as what is written to it from now on.  `written`
\* goes on as the history of what the children of the process have written.
CallAgain ==
    /\ pc = "returned_ok"
    /\ calls < MaxCalls
    /\ calls' = calls + 1
    /\ orphan_wpc' = wpc
    /\ orphan_wchunk' = wchunk
    /\ orphan_pty' = Orphaned(rpc, chunk, pty_out)
    /\ pc' = "exec"
    /\ start_time' = NoTime
    /\ end_time' = NoTime
    /\ program' = <<>>
    /\ args' = <<>>
    /\ spawn_attempts' = 0
    /\ child' = "none"
    /\ child_status' = NoStatus
    /\ pty_out' = <<>>
    /\ forwarded' = <<>>
    /\ rpc' = "none"
    /\ chunk' = <<>>
    /\ read_bytes' = <<>>
    /\ echoed' = <<>>
    /\ output' = <<>>
    /\ pump_end' = None
    /\ pump_fault' = FALSE
    /\ wpc' = "none"
    /\ wchunk' = <<>>
    /\ input_end' = None
    /\ lock_holder' = None
    /\ drain_exit' = None
    /\ exit_status' = NoStatus
    /\ result' = NoResult
    /\ UNCHANGED <<envVars, err, handleVars, written, stdin_buf, typed, elapsed,
                   commands_file, host_code, stolen, storeVars>>

\* The earlier call's input pump: stdin.read(&mut buffer) returns Ok(n), n > 0
OrphanInputRead ==
    /\ orphan_wpc = "read"
    /\ stdin_buf # <<>>
    /\ orphan_wchunk' = stdin_buf
    /\ stolen' = stolen \o stdin_buf
    /\ stdin_buf' = <<>>
    /\ orphan_wpc' = "write"
    /\ UNCHANGED <<envVars, pc, err, timeVars, parseVars, spawn_attempts, childVars,
                   handleVars, typed, forwarded, wpc, wchunk, input_end, pumpVars,
                   drainVars, exit_status, result, commands_file, host_code, calls,
                   orphan_pty, storeVars>>

\* The earlier call's input pump: stdin.read returns Ok(0) or Err(_)
OrphanInputReadEnd ==
    /\ orphan_wpc = "read"
    /\ orphan_wpc' = "done"
    /\ UNCHANGED <<envVars, pc, err, timeVars, parseVars, spawn_attempts, childVars,
                   handleVars, inputVars, pumpVars, drainVars, exit_status, result,
                   commands_file, host_code, calls, orphan_wchunk, orphan_pty,
                   stolen, storeVars>>

\* The earlier call's input pump: writer.write_all and writer.flush on the
\* writer of the earlier PTY, which fail once that PTY is closed
OrphanInputWrite ==
    /\ orphan_wpc = "write"
    /\ orphan_wpc' \in {"read", "done"}
    /\ orphan_wchunk' = <<>>
    /\ UNCHANGED <<envVars, pc, err, timeVars, parseVars, spawn_attempts, childVars,
                   handleVars, inputVars, pumpVars, drainVars, exit_status, result,
                   commands_file, host_code, calls, orphan_pty, stolen,
                   storeVars>>

\* The earlier call's output pump: reader.read returns Ok(n), n > 0, then
\* stdout.write_all and stdout.flush, whose results are discarded
OrphanPumpEcho ==
    /\ orphan_pty # <<>>
    /\ \E n \in 1..Min(Len(orphan_pty), BufSize) :
        /\ orphan_pty' = SubSeq(orphan_pty, n + 1, Len(orphan_pty))
        /\ \/ echoed' = echoed \o SubSeq(orphan_pty, 1, n)
           \/ UNCHANGED echoed
    /\ UNCHANGED <<envVars, pc, err, timeVars, parseVars, spawn_attempts, childVars,
                   handleVars, inputVars, rpc, chunk, read_bytes, output, pump_end,
                   pump_fault, lock_holder, drainVars, exit_status, result,
                   commands_file, host_code, calls, orphan_wpc, orphan_wchunk,
                   stolen, storeVars>>

\* The earlier call's output pump: reader.read returns Ok(0) or Err(_)
OrphanPumpEnd ==
    /\ orphan_pty # <<>>
    /\ orphan_pty' = <<>>
    /\ UNCHANGED <<envVars, pc, err, timeVars, parseVars, spawn_attempts, childVars,
                   handleVars, inputVars, pumpVars, drainVars, exit_status, result,
                   commands_file, host_code, calls, orphan_wpc, orphan_wchunk,
                   stolen, storeVars>>

Orphans ==
    \/ OrphanInputRead \/ OrphanInputReadEnd \/ OrphanInputWrite
    \/ OrphanPumpEcho \/ OrphanPumpEnd

\* The process of the harness: one Unix host, the command "a b".
ReuseInit ==
    /\ host = Host("unix", FALSE, FALSE)
    /\ command = <<"a", " ", "b">>
    /\ SessionInit
    /\ ProcessInit
    /\ max_size = max_output_size

ReuseNext ==
    Coordinator \/ OutputPump \/ InputPump \/ Environment \/ CallAgain \/ Orphans

ReuseSpec == ReuseInit /\ [][ReuseNext]_vars

-----------------------------------------------------------------------------
(* The specification of the Recorder and the Storage: invocations of        *)
(* `shelltape record` and searches on one log                                *)

\* The instants `shelltape record` is given as start_time
RecordTimes == {NarrowI64(r) : r \in {c \in ClockReadings : ~c.pre}}

\* The arguments of `shelltape record`: the command "a" or "B", its output
\* "", "\u00E9\n" or "\"b", and the directory "/" or "/A" it ran in.
RecordArgs ==
    {<<(<<97>>), (<<>>), (<<47>>)>>,
     <<(<<66>>), (<<233, 10>>), (<<47>>)>>,
     <<(<<66>>), (<<34, 98>>), (<<47, 65>>)>>}

\* The sizes a Recorder is built with: Recorder::new(), or
\* with_max_output_size of one or two bytes.
RecorderSizes == {max_output_size, 1, 2}

\* The queries of a search: "", "a", "B", "/a"
Queries == {<<>>, <<97>>, <<66>>, <<47, 97>>}

StoreInit ==
    /\ host = Host("unix", FALSE, FALSE)
    /\ command = <<>>
    /\ SessionInit
    /\ ProcessInit
    /\ max_size \in RecorderSizes

\* recorder.record(command, output, exit_code, start_time, end_time, cwd,
\* session_id) of Commands::Record: the slice of truncate_output panics, or
\* append_command fails and the error is returned, or the line is appended.
\* Before them the subtraction of the times panics when it overflows and the
\* build checks overflow, and is carried on with modulo 2^64 when it does not.
Record(cmd, out, code, st, et, cwd) ==
    /\ pc = "exec"
    /\ Len(appended) < MaxStore
    /\ \E r \in {record(commands_file, max_size, cmd, out, code, st, cwd)} :
          \/ /\ duration_ms(st, et).overflow
             /\ err' = "panic"
             /\ duration' = Recorded(st, et, FALSE)
             /\ UNCHANGED <<commands_file, appended>>
          \/ /\ r.panic
             /\ err' = "panic"
             /\ duration' = Recorded(st, et, FALSE)
             /\ UNCHANGED <<commands_file, appended>>
          \/ /\ ~r.panic
             /\ err' = "record"
             /\ duration' = Recorded(st, et, FALSE)
             /\ UNCHANGED <<commands_file, appended>>
          \/ /\ ~r.panic
             /\ err' = None
             /\ commands_file' = r.file
             /\ appended' = Append(appended, r.cmd)
             /\ duration' = Recorded(st, et, TRUE)
    /\ UNCHANGED <<envVars, pc, timeVars, parseVars, spawn_attempts, childVars,
                   handleVars, inputVars, pumpVars, drainVars, exit_status, result,
                   host_code, orphanVars, max_size, query, limit, found, cleaner, app>>

RecordCall ==
    \E a \in RecordArgs, st \in RecordTimes, et \in RecordTimes :
        Record(a[1], a[2], 0, st, et, a[3])

\* storage.search_commands(query, limit), once the log is written
SearchCall ==
    /\ pc = "exec"
    /\ pc' = "searched"
    /\ \E q \in Queries, n \in 0..MaxLimit :
        /\ query' = q
        /\ limit' = n
        /\ found' = search_commands(commands_file, q, n)
    /\ UNCHANGED <<envVars, err, timeVars, parseVars, spawn_attempts, childVars,
                   handleVars, inputVars, pumpVars, drainVars, exit_status, result,
                   commands_file, host_code, orphanVars, max_size, appended,
                   cleaner, duration, app>>

StoreSpec == StoreInit /\ [][RecordCall \/ SearchCall]_vars

\* The start times `shelltape record` is given in the specification of the
\* duration: 0, 2 ms and i64::MIN
DurationStarts == {I64(0, 0), I64(0, 2 * NanosPerMilli), I64(0 - 1, 0)}

\* Its end times: 0, 1 ms, 3.5 ms, i64::MAX and i64::MIN
DurationEnds ==
    {I64(0, 0), I64(0, NanosPerMilli), I64(0, 3 * NanosPerMilli + 500000),
     I64(1, 0 - 1), I64(0 - 1, 0)}

\* Commands::Record with any --start-time and --end-time
RecordAnyTimes ==
    \E a \in RecordArgs, st \in DurationStarts, et \in DurationEnds :
        Record(a[1], a[2], 0, st, et, a[3])

\* `shelltape record` called with times of the whole range of i64
DurationSpec == StoreInit /\ [][RecordAnyTimes]_vars

-----------------------------------------------------------------------------
(* Storage::cleanup_old_commands, run by `shelltape clean` in a process of   *)
(* its own while `shelltape record` appends to the same log.  The clock of   *)
(* this specification counts days.                                           *)

\* A u64 number of days: n, or 2^64 - n
Days(n) == [wrapped |-> FALSE, n |-> n]
DaysBelowWrap(n) == [wrapped |-> TRUE, n |-> n]

\* `days as i64`: the same 64 bits read as two's complement
as_i64(d) == IF d.wrapped THEN 0 - d.n ELSE d.n

\* Utc::now() - chrono::Duration::days(days as i64)
Cutoff(now, days) == now - as_i64(days)

\* cmd.started_at > cutoff, for a cutoff in days since the epoch
Later(t, c) == t.hi = 0 /\ t.lo > c

\* The arguments of cleanup_old_commands: 0 days, 1 day, u64::MAX days
CleanDays == {Days(0), Days(1), DaysBelowWrap(1)}

\* What Utc::now() reads in the cleanup: day 1 or day 2
CleanNows == {1, 2}

\* The bytes of the file whose lines are `file`
Flat(file) == ConcatRange([i \in 1..Len(file) |-> file[i] \o <<10>>], 1, Len(file))

\* write of `data` through a handle opened without append, at the handle's
\* offset: the bytes there are overwritten, the file grows if it must
write_at(file, off, data) ==
    Pick({lines(SubSeq(flat, 1, off) \o data
                \o SubSeq(flat, off + Len(data) + 1, Len(flat)))
          : flat \in {Flat(file)}})

\* let cutoff = Utc::now() - chrono::Duration::days(days as i64)
CleanStart ==
    /\ pc = "exec"
    /\ cleaner.pc = "idle"
    /\ \E days \in CleanDays, now \in CleanNows :
          cleaner' = [cleaner EXCEPT !.pc = "read", !.now = now, !.days = days,
                                     !.cutoff = Cutoff(now, days),
                                     !.started = Len(appended)]
    /\ UNCHANGED <<envVars, pc, err, timeVars, parseVars, spawn_attempts, childVars,
                   handleVars, inputVars, pumpVars, drainVars, exit_status, result,
                   commands_file, host_code, orphanVars, max_size, appended, query,
                   limit, found, duration, app>>

\* let commands = self.read_all_commands()?; and the partition into keep
\* and remove
CleanRead ==
    /\ cleaner.pc = "read"
    /\ \E all \in {read_all_commands(commands_file)} :
          IF ~all.ok THEN cleaner' = [cleaner EXCEPT !.pc = "failed"]
          ELSE \E keep \in {SelectSeq(all.commands,
                                      LAMBDA c : Later(c.started_at, cleaner.cutoff))} :
                  cleaner' = [cleaner EXCEPT !.pc = "open",
                                             !.before = SubSeq(all.commands, 1, Len(all.commands)),
                                             !.keep = keep,
                                             !.removed = Len(all.commands) - Len(keep)]
    /\ UNCHANGED <<envVars, pc, err, timeVars, parseVars, spawn_attempts, childVars,
                   handleVars, inputVars, pumpVars, drainVars, exit_status, result,
                   commands_file, host_code, orphanVars, max_size, appended, query,
                   limit, found, duration, app>>

\* rewrite_commands: OpenOptions::new().write(true).truncate(true).create(true)
\* .open(..)?: the file is emptied, or the open fails
CleanOpen ==
    /\ cleaner.pc = "open"
    /\ \/ /\ commands_file' = <<>>
          /\ cleaner' = [cleaner EXCEPT !.pc = "write", !.off = 0, !.next = 1]
       \/ /\ cleaner' = [cleaner EXCEPT !.pc = "failed"]
          /\ UNCHANGED commands_file
    /\ UNCHANGED <<envVars, pc, err, timeVars, parseVars, spawn_attempts, childVars,
                   handleVars, inputVars, pumpVars, drainVars, exit_status, result,
                   host_code, orphanVars, max_size, appended, query, limit, found, duration, app>>

\* rewrite_commands: writeln!(file, "{}", json)? for the next command kept,
\* and Ok(remove.len()) after the last
CleanWrite ==
    /\ cleaner.pc = "write"
    /\ IF cleaner.next > Len(cleaner.keep)
       THEN /\ cleaner' = [cleaner EXCEPT !.pc = "done", !.finished = Len(appended)]
            /\ UNCHANGED commands_file
       ELSE \/ \E line \in {to_string(cleaner.keep[cleaner.next]) \o <<10>>} :
                 /\ commands_file' = write_at(commands_file, cleaner.off, line)
                 /\ cleaner' = [cleaner EXCEPT !.off = cleaner.off + Len(line),
                                               !.next = cleaner.next + 1]
            \/ /\ cleaner' = [cleaner EXCEPT !.pc = "failed"]
               /\ UNCHANGED commands_file
    /\ UNCHANGED <<envVars, pc, err, timeVars, parseVars, spawn_attempts, childVars,
                   handleVars, inputVars, pumpVars, drainVars, exit_status, result,
                   host_code, orphanVars, max_size, appended, query, limit, found, duration, app>>

Cleanup == CleanStart \/ CleanRead \/ CleanOpen \/ CleanWrite

CleanSpec == StoreInit /\ [][RecordCall \/ Cleanup]_vars

\* cmd.started_at < cutoff, for a cutoff in days since the epoch
Earlier(t, c) == t.hi < 0 \/ t.lo < c

\* commands_before.iter().filter(|cmd| cmd.started_at < cutoff).count()
would_remove(commands, c) ==
    Len(SelectSeq(commands, LAMBDA cmd : Earlier(cmd.started_at, c)))

\* clean_commands(older_than_days, yes) up to its announcement: the log is
\* read and the commands older than the cutoff are counted; with no command
\* stored or none to remove it returns, else it prints "This will remove N out
\* of M commands".
CleanCount ==
    /\ pc = "exec"
    /\ cleaner.pc = "idle"
    /\ \E days \in CleanDays, now \in CleanNows, yes \in BOOLEAN,
          all \in {read_all_commands(commands_file)} :
          IF ~all.ok THEN cleaner' = [cleaner EXCEPT !.pc = "failed"]
          ELSE \E n \in {would_remove(all.commands, Cutoff(now, days))} :
                  cleaner' = [cleaner EXCEPT
                                 !.pc = IF Len(all.commands) = 0 \/ n = 0
                                        THEN "returned" ELSE "announced",
                                 !.days = days, !.asked = now, !.yes = yes,
                                 !.total = Len(all.commands), !.announced = n]
    /\ UNCHANGED <<envVars, pc, err, timeVars, parseVars, spawn_attempts, childVars,
                   handleVars, inputVars, pumpVars, drainVars, exit_status, result,
                   commands_file, host_code, orphanVars, max_size, appended, query,
                   limit, found, duration, app>>

\* clean_commands: with --yes the cleanup goes on; else the answer is read and
\* anything but "y" cancels it
CleanConfirm ==
    /\ cleaner.pc = "announced"
    /\ \E answer \in {"y", "n"} :
          cleaner' = [cleaner EXCEPT !.pc = IF cleaner.yes \/ answer = "y"
                                            THEN "confirmed" ELSE "cancelled"]
    /\ UNCHANGED <<envVars, pc, err, timeVars, parseVars, spawn_attempts, childVars,
                   handleVars, inputVars, pumpVars, drainVars, exit_status, result,
                   commands_file, host_code, orphanVars, max_size, appended, query,
                   limit, found, duration, app>>

\* clean_commands: storage.cleanup_old_commands(older_than_days), whose
\* Utc::now() is not before the one of the announcement
CleanCall ==
    /\ cleaner.pc = "confirmed"
    /\ \E now \in {n \in CleanNows : n >= cleaner.asked} :
          cleaner' = [cleaner EXCEPT !.pc = "read", !.now = now,
                                     !.cutoff = Cutoff(now, cleaner.days),
                                     !.started = Len(appended)]
    /\ UNCHANGED <<envVars, pc, err, timeVars, parseVars, spawn_attempts, childVars,
                   handleVars, inputVars, pumpVars, drainVars, exit_status, result,
                   commands_file, host_code, orphanVars, max_size, appended, query,
                   limit, found, duration, app>>

clean_commands == CleanCount \/ CleanConfirm \/ CleanCall \/ CleanRead \/ CleanOpen \/ CleanWrite

\* `shelltape clean` on a log that `shelltape record` writes
CleanCommandSpec == StoreInit /\ [][RecordCall \/ clean_commands]_vars

-----------------------------------------------------------------------------
(* The browser: tui::run, App and handle_key_event.  Indices count from 0 as *)
(* in the code: commands[i] of the code is commands[i + 1] here.             *)

\* (0..n).collect()
Range0(n) == [i \in 1..n |-> i - 1]

\* Vec::get(i)
Get(v, i) == IF i < Len(v) THEN [some |-> TRUE, val |-> v[i + 1]] ELSE [some |-> FALSE, val |-> 0]

\* usize::saturating_sub
saturating_sub(a, b) == IF a >= b THEN a - b ELSE 0

\* App::new on the commands read from the log
App_new(commands) ==
    Pick({[pc |-> "running", commands |-> sorted,
           filtered_commands |-> Range0(Len(sorted)), selected |-> 0, scroll |-> 0,
           search_query |-> <<>>, search_mode |-> FALSE, marked |-> {},
           view_mode |-> "List", should_quit |-> FALSE]
          : sorted \in {SortInto(<<>>, commands)}})

\* App::apply_filter, wrong: the selection is left where it is
apply_filter_keeps_selection(a) ==
    [a EXCEPT !.filtered_commands =
                  IF a.search_query = <<>> THEN Range0(Len(a.commands))
                  ELSE SelectSeq(Range0(Len(a.commands)),
                                 LAMBDA i : Matches(a.commands[i + 1], a.search_query))]

\* App::apply_filter
apply_filter(a) ==
    [a EXCEPT !.filtered_commands =
                  IF a.search_query = <<>> THEN Range0(Len(a.commands))
                  ELSE SelectSeq(Range0(Len(a.commands)),
                                 LAMBDA i : Matches(a.commands[i + 1], a.search_query)),
              !.selected = 0,
              !.scroll = 0]

\* App::select_next
select_next(a) ==
    IF a.filtered_commands # <<>>
    THEN [a EXCEPT !.selected = Min(a.selected + 1, Len(a.filtered_commands) - 1)]
    ELSE a

\* App::select_previous
select_previous(a) == [a EXCEPT !.selected = saturating_sub(a.selected, 1)]

\* App::page_down
page_down(a, page_size) ==
    IF a.filtered_commands # <<>>
    THEN [a EXCEPT !.selected = Min(a.selected + page_size, Len(a.filtered_commands) - 1)]
    ELSE a

\* App::page_up
page_up(a, page_size) == [a EXCEPT !.selected = saturating_sub(a.selected, page_size)]

\* App::select_first
select_first(a) == [a EXCEPT !.selected = 0]

\* App::select_last
select_last(a) ==
    IF a.filtered_commands # <<>>
    THEN [a EXCEPT !.selected = Len(a.filtered_commands) - 1]
    ELSE a

\* App::toggle_mark, wrong: the command is marked whether it was or not
toggle_mark_inserts(a) ==
    Pick({IF g.some THEN [a EXCEPT !.marked = a.marked \cup {g.val}] ELSE a
          : g \in {Get(a.filtered_commands, a.selected)}})

\* App::toggle_mark
toggle_mark(a) ==
    Pick({IF ~g.some THEN a
          ELSE IF g.val \in a.marked THEN [a EXCEPT !.marked = a.marked \ {g.val}]
          ELSE [a EXCEPT !.marked = a.marked \cup {g.val}]
          : g \in {Get(a.filtered_commands, a.selected)}})

\* App::mark_all
mark_all(a) ==
    [a EXCEPT !.marked = a.marked \cup {a.filtered_commands[i] : i \in 1..Len(a.filtered_commands)}]

\* App::clear_marks
clear_marks(a) == [a EXCEPT !.marked = {}]

\* App::get_selected_command
get_selected_command(a) ==
    Pick({IF g.some /\ g.val < Len(a.commands)
          THEN [some |-> TRUE, val |-> a.commands[g.val + 1]]
          ELSE [some |-> FALSE, val |-> NoCommand]
          : g \in {Get(a.filtered_commands, a.selected)}})

\* App::toggle_view_mode
toggle_view_mode(a) ==
    [a EXCEPT !.view_mode = IF a.view_mode = "List" THEN "Detail" ELSE "List"]

\* App::search_input, wrong: the character is dropped
search_input_drops(a, c) == a

\* App::search_input
search_input(a, c) == [a EXCEPT !.search_query = Append(a.search_query, c)]

\* App::search_backspace
search_backspace(a) ==
    [a EXCEPT !.search_query = SubSeq(a.search_query, 1, Len(a.search_query) - 1)]

\* App::clear_search
clear_search(a) == apply_filter([a EXCEPT !.search_query = <<>>])

\* App::quit
quit(a) == [a EXCEPT !.should_quit = TRUE]

\* A KeyEvent: its code, the character of a Char, and whether Control is held
Key(code, c, ctrl) == [code |-> code, c |-> c, ctrl |-> ctrl]

\* KeyCode::Char(ch) of a key, for the character with code point ch
IsChar(key, ch) == key.code = "Char" /\ key.c = ch

\* let page_size = 10
page_size == 10

\* handle_search_mode
handle_search_mode(a, key) ==
    IF key.code = "Esc" THEN [a EXCEPT !.search_mode = FALSE]
    ELSE IF key.code = "Enter" THEN [apply_filter(a) EXCEPT !.search_mode = FALSE]
    ELSE IF key.code = "Char" THEN search_input(a, key.c)
    ELSE IF key.code = "Backspace" THEN search_backspace(a)
    ELSE a

\* handle_list_mode: the first arm of the match that fits; the guard of an
\* arm holds for both of its patterns, and contains(KeyModifiers::NONE) holds
\* of every key
handle_list_mode(a, key) ==
    IF IsChar(key, 106) \/ key.code = "Down" THEN select_next(a)
    ELSE IF IsChar(key, 107) \/ key.code = "Up" THEN select_previous(a)
    ELSE IF IsChar(key, 103) THEN select_first(a)
    ELSE IF IsChar(key, 71) \/ key.code = "End" THEN select_last(a)
    ELSE IF (key.code = "PageDown" \/ IsChar(key, 100)) /\ key.ctrl THEN page_down(a, page_size)
    ELSE IF (key.code = "PageUp" \/ IsChar(key, 117)) /\ key.ctrl THEN page_up(a, page_size)
    ELSE IF IsChar(key, 32) THEN select_next(toggle_mark(a))
    ELSE IF IsChar(key, 97) THEN mark_all(a)
    ELSE IF IsChar(key, 99) THEN clear_marks(a)
    ELSE IF IsChar(key, 47) THEN [a EXCEPT !.search_mode = TRUE, !.search_query = <<>>]
    ELSE IF key.code = "Esc" THEN clear_search(a)
    ELSE IF key.code = "Enter" THEN toggle_view_mode(a)
    ELSE a

\* handle_detail_mode
handle_detail_mode(a, key) ==
    IF key.code \in {"Enter", "Esc"} THEN toggle_view_mode(a)
    ELSE IF IsChar(key, 106) \/ key.code = "Down" THEN select_next(a)
    ELSE IF IsChar(key, 107) \/ key.code = "Up" THEN select_previous(a)
    ELSE a

\* handle_key_event
handle_key_event(a, key) ==
    IF IsChar(key, 113) /\ ~a.search_mode THEN quit(a)
    ELSE IF a.search_mode THEN handle_search_mode(a, key)
    ELSE IF a.view_mode = "List" THEN handle_list_mode(a, key)
    ELSE handle_detail_mode(a, key)

\* The characters of the keys pressed: q j k g G d u space a c / e B
KeyChars == {113, 106, 107, 103, 71, 100, 117, 32, 97, 99, 47, 101, 66}

\* The key events of the model: the characters, plain or with Control, and
\* the keys with a code of their own (Tab stands for all the others)
KeyEvents ==
    {Key("Char", c, ctrl) : c \in KeyChars, ctrl \in BOOLEAN}
    \cup {Key(code, 0, ctrl) :
             code \in {"Down", "Up", "End", "PageDown", "PageUp", "Esc", "Enter",
                       "Backspace", "Tab"},
             ctrl \in BOOLEAN}

\* The logs the browser is opened on: empty, or two or three commands "a" and
\* "B" from the directories "/" and "/A"
BrowseLogs ==
    {<<>>,
     <<Command(<<97>>, <<>>, 0, I64(0, 0), <<47>>),
       Command(<<66>>, <<34, 98>>, 0, I64(0, 1), <<47, 65>>)>>,
     <<Command(<<66>>, <<233, 10>>, 0, I64(0, 1), <<47>>),
       Command(<<97>>, <<>>, 0, I64(0, 0), <<47>>),
       Command(<<66>>, <<34, 98>>, 0, I64(0, 1), <<47, 65>>)>>}

\* the file that append_command wrote for the commands of a log
RECURSIVE LogFile(_)
LogFile(commands) ==
    IF commands = <<>> THEN <<>>
    ELSE append_command(LogFile(SubSeq(commands, 1, Len(commands) - 1)),
                        commands[Len(commands)])

\* `shelltape browse` is started on a log that earlier processes wrote
BrowseInit ==
    /\ host = Host("unix", FALSE, FALSE)
    /\ command = <<>>
    /\ pc = "exec" /\ err = None
    /\ start_time = NoTime /\ end_time = NoTime
    /\ program = <<>> /\ args = <<>> /\ spawn_attempts = 0
    /\ child = "none" /\ child_status = NoStatus
    /\ slave_held = FALSE /\ master_held = FALSE
    /\ pty_out = <<>> /\ written = <<>>
    /\ stdin_buf = <<>> /\ typed = 0 /\ forwarded = <<>>
    /\ rpc = "none" /\ chunk = <<>> /\ read_bytes = <<>> /\ echoed = <<>>
    /\ output = <<>> /\ pump_end = None /\ pump_fault = FALSE
    /\ wpc = "none" /\ wchunk = <<>> /\ input_end = None
    /\ lock_holder = None /\ elapsed = 0 /\ drain_exit = None
    /\ exit_status = NoStatus /\ result = NoResult
    /\ host_code = 0
    /\ calls = 1 /\ orphan_wpc = "none" /\ orphan_wchunk = <<>>
    /\ orphan_pty = <<>> /\ stolen = <<>>
    /\ max_size = max_output_size
    /\ appended \in BrowseLogs
    /\ commands_file = LogFile(appended)
    /\ query = <<>> /\ limit = 0 /\ found = NoFound
    /\ cleaner = NoCleaner /\ duration = NoDuration
    /\ app = NoApp

browseFrame ==
    <<envVars, pc, err, timeVars, parseVars, spawn_attempts, childVars, handleVars,
      inputVars, pumpVars, drainVars, exit_status, result, commands_file, host_code,
      orphanVars, max_size, appended, query, limit, found, cleaner, duration>>

\* tui::run: let mut app = App::new()?, or the error of read_all_commands
BrowseOpen ==
    /\ pc = "exec"
    /\ app.pc = "closed"
    /\ \E all \in {read_all_commands(commands_file)} :
          app' = IF all.ok THEN App_new(all.commands) ELSE [app EXCEPT !.pc = "failed"]
    /\ UNCHANGED browseFrame

\* run_app: one turn of the loop on a key event; the loop breaks when
\* should_quit is set.  The search query takes at most MaxQuery characters.
KeyEvent ==
    /\ app.pc = "running"
    /\ \E key \in KeyEvents :
          /\ (app.search_mode /\ key.code = "Char") => Len(app.search_query) < MaxQuery
          /\ \E a \in {handle_key_event(app, key)} :
                app' = [a EXCEPT !.pc = IF a.should_quit THEN "quit" ELSE "running"]
    /\ UNCHANGED browseFrame

\* run_app: terminal.draw or read_event fails and the loop is left with the
\* error
EventError ==
    /\ app.pc = "running"
    /\ app' = [app EXCEPT !.pc = "failed"]
    /\ UNCHANGED browseFrame

Browser == BrowseOpen \/ KeyEvent \/ EventError

BrowseSpec == BrowseInit /\ [][Browser]_vars

-----------------------------------------------------------------------------
(* The specification of the Input Pump alone: the stdin thread of a session  *)
(* whose child runs, and a user who types                                    *)

\* The bytes typed so far: 'x', 'y', 'z', ...
TypedKeys == [i \in 1..typed |-> 119 + i]

\* The session after take_writer and the start of both threads: the child
\* of "a b" runs, nothing was written, read or typed.
InputInit ==
    /\ host = Host("unix", FALSE, FALSE)
    /\ command = <<"a", " ", "b">>
    /\ pc = "wait"
    /\ err = None
    /\ start_time = NarrowI64(Reading(FALSE, 0, 0))
    /\ end_time = NoTime
    /\ program = <<"a">>
    /\ args = <<(<<"b">>)>>
    /\ spawn_attempts = 1
    /\ child = "running"
    /\ child_status = NoStatus
    /\ slave_held = FALSE
    /\ master_held = TRUE
    /\ pty_out = <<>>
    /\ written = <<>>
    /\ stdin_buf = <<>>
    /\ typed = 0
    /\ forwarded = <<>>
    /\ rpc = "read"
    /\ chunk = <<>>
    /\ read_bytes = <<>>
    /\ echoed = <<>>
    /\ output = <<>>
    /\ pump_end = None
    /\ pump_fault = FALSE
    /\ wpc = "read"
    /\ wchunk = <<>>
    /\ input_end = None
    /\ lock_holder = None
    /\ elapsed = 0
    /\ drain_exit = None
    /\ exit_status = NoStatus
    /\ result = NoResult
    /\ commands_file = <<>>
    /\ host_code = 0
    /\ ProcessInit
    /\ max_size = max_output_size

\* The user types the next byte on the real terminal.
UserTypeKey ==
    /\ typed < MaxKeys
    /\ stdin_buf' = Append(stdin_buf, 120 + typed)
    /\ typed' = typed + 1
    /\ UNCHANGED <<envVars, pc, err, timeVars, parseVars, spawn_attempts, childVars,
                   handleVars, forwarded, wpc, wchunk, input_end, pumpVars,
                   drainVars, exit_status, result, mainVars>>

InputSpec == InputInit /\ [][InputPump \/ UserTypeKey]_vars

-----------------------------------------------------------------------------
(* Properties *)

\* execute_with_capture has returned to main
Returned == pc \in {"returned_ok", "returned_err", "exited"}

\* The `?` of the set-up steps
SetupErrors == {"openpty", "spawn", "clone_reader", "take_writer"}

\* The prefixes of a byte stream
Prefixes(bs) == {SubSeq(bs, 1, k) : k \in 0..Len(bs)}

\* C1, as stated: the exit_code of every result is numerically the status s
\* the child exited with, for every u32 s.
C1_ExitCodeEqualsStatus ==
    result.ok =>
        /\ exit_status = child_status
        /\ exit_status.top = 0
        /\ result.exit_code = exit_status.low

\* C1, amended: the exit_code of every result is the child's status read as
\* a signed 32-bit integer: s itself when s < 2^31, s - 2^32 otherwise; and
\* the status is held only once the wait on the exited child has returned.
C1_ExitCodeIsStatusAsSigned ==
    /\ result.ok =>
        /\ child = "exited"
        /\ exit_status = child_status
        /\ exit_status.top = 0 => result.exit_code = exit_status.low
        /\ exit_status.top = 1 => result.exit_code = (exit_status.low - 2147483647) - 1
    /\ exit_status # NoStatus =>
        /\ child = "exited"
        /\ exit_status = child_status
        /\ pc \notin {"exec", "openpty", "parse", "spawn", "drop_slave", "clone_reader",
                      "take_writer", "wait"}

\* A result for a child whose status has its top bit set.
C1_Witness == result.ok /\ exit_status.top = 1 /\ result.exit_code < 0

\* The child wrote the text T and exited with status 0.
WroteTextExitedZero ==
    /\ result.ok
    /\ child_status = U32(0, 0)
    /\ written # <<>>
    /\ ValidUtf8(written)

\* C2, as stated: whenever a child wrote a text T and exited with status 0,
\* the result's output contains T and its exit_code is 0, under every
\* interleaving (here: of the runs in which no read or write of the pump fails).
C2_OutputContainsText ==
    (WroteTextExitedZero /\ pump_end # "error" /\ ~pump_fault) =>
        /\ Contains(result.output, from_utf8_lossy(written))
        /\ result.exit_code = 0

\* C2, amended: the result's exit_code is 0 and its output is the decoding
\* of a prefix of T's bytes; it contains T whenever the bounded wait ended
\* because the pump had finished on end-of-stream.
C2_OutputIsPrefixOfText ==
    WroteTextExitedZero =>
        /\ result.exit_code = 0
        /\ \E p \in Prefixes(written) : result.output = from_utf8_lossy(p)
        /\ (drain_exit = "finished" /\ pump_end = "eof") =>
               Contains(result.output, from_utf8_lossy(written))

\* A two-byte text read in two chunks, the pump finished on end-of-stream
\* within the bounded wait, and the output is the text.
C2_Witness ==
    /\ WroteTextExitedZero
    /\ written = <<195, 169>>
    /\ drain_exit = "finished"
    /\ pump_end = "eof"
    /\ result.output = <<233>>

\* C4: the end_time of every result is not before its start_time.
C4_EndNotBeforeStart ==
    result.ok => LeI64(result.start_time, result.end_time)

\* C5: after a failed set-up step execute_with_capture has returned an error
\* and no result, spawn_command is called at most once, and no child exists
\* unless both the PTY and the spawn on it succeeded.
C5_SetupFailureIsError ==
    /\ err \in SetupErrors =>
        /\ pc \in {"returned_err", "exited"}
        /\ result = NoResult
    /\ spawn_attempts <= 1
    /\ child # "none" => spawn_attempts = 1 /\ err \notin {"openpty", "spawn"}
    /\ err \in {"openpty", "spawn"} => child = "none"

\* take_writer has failed after the child was spawned, and an error is returned.
C5_Witness ==
    /\ err = "take_writer"
    /\ pc = "returned_err"
    /\ child = "running"
    /\ result = NoResult

\* The wait on the child has returned its status.
WaitReturned == exit_status # NoStatus

\* C3, as stated: once the wait on the exited child has returned,
\* execute_with_capture eventually returns a result.
C3_EventuallyReturnsResult == WaitReturned ~> result.ok

\* C3, amended: once the wait on the exited child has returned,
\* execute_with_capture eventually returns, a result or the error of a failed
\* read of the end time, even if the pump never finishes; the bounded wait is
\* left only when the pump has finished or the timeout has elapsed, the pump
\* is never terminated by the coordinator, and the coordinator holds the
\* status of a session only while the mutex is not held by the pump.
C3_EventuallyReturns ==
    /\ WaitReturned ~> (result.ok \/ (err = "end_time" /\ Returned))
    /\ [](drain_exit = "finished" => rpc \in {"done"})
    /\ [][(pc = "drain" /\ pc' # "drain") =>
            /\ (is_finished \/ ~(elapsed < TimeoutMs))
            /\ rpc' = rpc]_vars
    /\ [](pc = "build" => lock_holder = "coordinator")

\* A result returned after the bounded wait expired, the pump still blocked
\* in its read.
C3_Witness ==
    /\ result.ok
    /\ pc = "returned_ok"
    /\ drain_exit = "timeout"
    /\ rpc = "read"

\* A read or write of one of the pumps has failed (or met end-of-input).
PumpFailed == pump_end = "error" \/ pump_fault \/ wpc = "done"

C7_EmptyCommandNotSpawned ==
    (split_whitespace(command) = <<>> /\ ~PowerShellPath(host)) => spawn_attempts = 0

\* C9: whenever execute_with_capture returned a result, the host process
\* terminates with the result's exit_code.
C9_HostExitsWithExitCode ==
    (pc = "exited" /\ result.ok) => host_code = result.exit_code

\* C10: after a set-up error of execute_with_capture main returns the error:
\* the recording step is never reached, the commands file is unchanged and
\* the host process ends with the status of a failed main.
C10_SetupErrorNotRecorded ==
    err \in SetupErrors =>
        /\ pc \in {"returned_err", "exited"}
        /\ commands_file = <<>>
        /\ pc = "exited" => host_code = MainErrCode

\* The host process has ended after a failed spawn.
C10_Witness == pc = "exited" /\ err = "spawn" /\ commands_file = <<>>

\* C12, as stated: once the wait on the exited child has returned while the
\* input pump is blocked in its read, execute_with_capture eventually returns
\* its result.
C12_ReturnsResultWithoutInputPump == (WaitReturned /\ wpc = "read") ~> result.ok

\* C12, amended: once the wait on the exited child has returned while the
\* input pump is blocked in its read, execute_with_capture eventually returns,
\* a result or the error of a failed read of the end time, whether or not the
\* input pump ever ends; the coordinator never sleeps in the bounded wait
\* once the output pump has finished, whatever the input pump does; no step
\* of the coordinator but the end of the process moves the input pump; and
\* the result is made of the buffer, the status and the two readings alone.
C12_ReturnsWithoutInputPump ==
    /\ (WaitReturned /\ wpc = "read") ~> (result.ok \/ (err = "end_time" /\ Returned))
    /\ [][(pc = "drain" /\ pc' = "drain" /\ rpc = "done") => elapsed' = elapsed]_vars
    /\ [][(wpc # "none" /\ wpc' # wpc) => (pc' = pc \/ pc' = "exited")]_vars
    /\ [][(pc = "build" /\ pc' = "returned_ok") =>
            result' = ExecutionResult(output, exit_status, start_time, end_time)]_vars

\* A result returned after the output pump finished within the bounded wait,
\* the input pump still blocked in its read of an empty stdin.
C12_Witness ==
    /\ result.ok
    /\ pc = "returned_ok"
    /\ wpc = "read"
    /\ stdin_buf = <<>>
    /\ drain_exit = "finished"
    /\ output # <<>>

\* C13: in every state the capture buffer is a prefix of what the output
\* pump has read from the controller side, itself a prefix of what the child
\* has written; the buffer only grows at its end, and only by the step of
\* the output pump that holds the mutex, whatever the input pump does.
C13_BufferIsPrefixOfRead ==
    /\ [](IsPrefix(output, read_bytes) /\ IsPrefix(read_bytes, written))
    /\ [][IsPrefix(output, output')]_vars
    /\ [][output' # output =>
            /\ rpc = "append"
            /\ lock_holder = "pump"
            /\ output' = output \o chunk
            /\ UNCHANGED <<wpc, wchunk, forwarded, stdin_buf>>]_vars

\* The first of two bytes is in the buffer, the second was read after the
\* input pump forwarded a typed byte, and is about to be appended.
C13_Witness ==
    /\ Len(output) = 1
    /\ Len(read_bytes) = 2
    /\ forwarded = <<120>>
    /\ rpc = "append"
    /\ chunk = <<read_bytes[2]>>

\* C14: start_time is sampled before the spawn, with nothing but the opening
\* of the PTY and the split of the command in between, and end_time is sampled
\* as the step after the wait on the child has returned: whatever time the
\* coordinator spends in the bounded wait for the output pump is spent after
\* end_time was sampled.
C14_EndTimeExcludesDrain ==
    /\ (start_time # NoTime /\ spawn_attempts = 0 /\ err = None) =>
            pc \in {"openpty", "parse", "spawn"}
    /\ (pc = "drain" /\ elapsed > 0) => end_time # NoTime
    /\ pc = "end_time" => drain_exit = None

\* C19: every chunk the output pump reads is written to the terminal before
\* it is appended to the buffer, and is written and appended before the next
\* read; while the terminal writes succeed the buffer is at every moment a
\* prefix of the bytes echoed, which are the bytes read.
C19_EchoedBeforeAppended ==
    /\ [](~pump_fault => (IsPrefix(output, echoed) /\ IsPrefix(echoed, read_bytes)))
    /\ [][output' # output =>
            /\ rpc = "append"
            /\ output' = output \o chunk
            /\ ~pump_fault => echoed = output \o chunk]_vars
    /\ [][echoed' # echoed =>
            /\ rpc = "echo"
            /\ rpc' = "lock"
            /\ output' = output
            /\ ~pump_fault => echoed' = output \o chunk]_vars
    /\ [][read_bytes' # read_bytes =>
            /\ rpc = "read"
            /\ output = read_bytes
            /\ ~pump_fault => echoed = read_bytes]_vars

\* The first chunk is echoed and appended, the second is echoed and not yet
\* appended.
C19_Witness ==
    /\ ~pump_fault
    /\ Len(output) = 1
    /\ Len(echoed) = 2
    /\ rpc \in {"lock", "append"}
    /\ chunk = <<echoed[2]>>

\* C20: an error of the write of a chunk to the terminal ends the output
\* pump: after it the pump reads nothing more from the controller side and
\* appends nothing more to the buffer.
C20_TerminalErrorEndsPump ==
    [][pump_fault => (read_bytes' = read_bytes /\ output' = output)]_vars

\* C21: the output pump's loop ends exactly when a read of the controller
\* side returns zero bytes or an error: the pump is finished if and only if
\* such a read has happened, the step that finishes it is that read, and a
\* read of zero bytes finds nothing left to read.
C21_PumpEndsOnReadEnd ==
    /\ [](is_finished <=> pump_end \in {"eof", "error"})
    /\ [][(rpc' = "done" /\ rpc # "done") =>
            /\ rpc = "read"
            /\ pump_end = None
            /\ pump_end' \in {"eof", "error"}
            /\ pump_end' = "eof" => pty_out = <<>>
            /\ UNCHANGED <<output, echoed, read_bytes>>]_vars
    /\ [][pump_end # None => UNCHANGED <<pump_end, read_bytes, output, echoed>>]_vars

\* The pump has read, echoed and appended two chunks and finished on
\* end-of-stream after the coordinator released the controller side.
C21_Witness ==
    /\ is_finished
    /\ pump_end = "eof"
    /\ Len(output) = 2
    /\ ~master_held
    /\ pc = "drain"

\* C22: the coordinator reads the capture buffer once, holding the lock,
\* after the child has exited and the bounded wait has ended because the pump
\* had finished or the time had expired; the coordinator holds the lock
\* only for that read and the pump only for an append, never both; an append
\* after the read leaves the result as it was returned, the decoding of the
\* buffer at the read.
C22_BufferReadOnceUnderLock ==
    /\ [](/\ lock_holder = "coordinator" <=> pc = "build"
          /\ rpc = "append" => lock_holder = "pump"
          /\ ~(pc = "build" /\ rpc = "append")
          /\ result.ok => \E p \in Prefixes(output) : result.output = from_utf8_lossy(p))
    /\ [][result' # result =>
            /\ result = NoResult
            /\ pc = "build"
            /\ lock_holder = "coordinator"
            /\ child = "exited"
            /\ drain_exit \in {"finished", "timeout"}
            /\ drain_exit = "finished" => is_finished
            /\ output' = output
            /\ result'.output = from_utf8_lossy(output)]_vars
    /\ [][output' # output => (lock_holder = "pump" /\ pc # "build" /\ result' = result)]_vars

\* The bounded wait expired, the result holds the one byte of the buffer at
\* the read, and the pump has appended a second byte since.
C22_Witness ==
    /\ result.ok
    /\ drain_exit = "timeout"
    /\ result.output = <<65>>
    /\ Len(output) = 2

\* The steps of the input pump
InputPumpStep == wpc' # wpc \/ wchunk' # wchunk \/ forwarded' # forwarded

\* C23: the output pump holds the lock of the capture buffer only for one
\* append: never while it is in a read of the controller side or in a write
\* to the terminal; the lock is taken by the pump and the coordinator only,
\* and no step of the input pump changes who holds it.
C23_LockHeldForAppendOnly ==
    /\ [](/\ lock_holder \in {None, "pump", "coordinator"}
          /\ rpc \in {"read", "echo", "lock", "done", "none"} => lock_holder # "pump"
          /\ (lock_holder = "pump" /\ pc # "exited") => rpc = "append")
    /\ [][(lock_holder' = "pump" /\ lock_holder # "pump") =>
            (rpc = "lock" /\ rpc' = "append")]_vars
    /\ [][(lock_holder = "pump" /\ rpc' # rpc /\ rpc' # "killed") =>
            (lock_holder' = None /\ output' = output \o chunk /\ rpc' = "read")]_vars
    /\ [][(InputPumpStep /\ pc' # "exited") => lock_holder' = lock_holder]_vars

\* The pump has appended a chunk and is back in a read with nothing to read
\* while the child runs; the lock is free and the input pump has forwarded
\* a byte.
C23_Witness ==
    /\ rpc = "read"
    /\ Len(output) = 1
    /\ pty_out = <<>>
    /\ child = "running"
    /\ lock_holder = None
    /\ forwarded # <<>>

\* C24: at every moment at most one component holds an open handle to the
\* controller side, and once the coordinator has released its handle after
\* the child's exit, no component holds one.
C24_ControllerSingleOwner ==
    /\ Cardinality(ControllerHolders) <= 1
    /\ pc \in {"drain", "end_time", "lock", "build", "returned_ok"} => ControllerHolders = {}

\* C25: the supervising process releases the child side of the PTY after
\* the spawn has succeeded and before the output pump exists, so before its
\* first read, and does not hold it again: it holds the child side only from
\* the opening of the PTY to the step after the spawn.
C25_ChildSideReleasedAfterSpawn ==
    /\ [](/\ slave_held => pc \in {"parse", "spawn", "drop_slave"}
          /\ (slave_held /\ child # "none") => pc = "drop_slave"
          /\ rpc # "none" => ~slave_held
          /\ read_bytes # <<>> => ~slave_held)
    /\ [][(slave_held' /\ ~slave_held) => (pc = "openpty" /\ child = "none")]_vars
    /\ [][(pc = "drop_slave" /\ pc' # pc) =>
            (child # "none" /\ rpc = "none" /\ ~slave_held' /\ pc' = "clone_reader")]_vars

\* The child runs, the output pump is in its first read, and the child side
\* is released.
C25_Witness ==
    /\ child = "running"
    /\ rpc = "read"
    /\ read_bytes = <<>>
    /\ pty_out # <<>>
    /\ ~slave_held
    /\ master_held

\* The statements of the main thread in program order
Steps ==
    <<"exec", "openpty", "parse", "spawn", "drop_slave", "clone_reader",
      "take_writer", "wait", "drop_master", "drain", "end_time", "lock", "build",
      "returned_ok", "returned_err", "exited">>

\* The place of a statement in that order
Rank(p) == CHOOSE i \in 1..Len(Steps) : Steps[i] = p

\* C26: the coordinator goes through its steps in order and never backwards;
\* its controller-side handle is never released while the child is still
\* running, and is released when the bounded wait begins; a result is
\* assembled only after the bounded wait; a failed call stays failed and
\* returns no result.
C26_CoordinatorInOrder ==
    /\ [][Rank(pc') >= Rank(pc)]_vars
    /\ [][(master_held /\ ~master_held') => child # "running"]_vars
    /\ [](pc = "drain" => ~master_held)
    /\ [](result.ok => drain_exit \in {"finished", "timeout"})
    /\ [][result' # result => (pc = "build" /\ pc' = "returned_ok")]_vars
    /\ [](pc = "returned_err" => (err # None /\ result = NoResult))
    /\ [][pc = "returned_err" => (pc' \in {"returned_err", "exited"} /\ result' = NoResult)]_vars

\* The input pump forwards what it reads, in order: while it runs, what
\* it has forwarded, the chunk in its hands and what waits on the real
\* terminal are together what was typed; it flushes each chunk before its
\* next read; once it has stopped it forwards nothing further.
ForwardsInOrder ==
    /\ [](IsPrefix(forwarded, TypedKeys))
    /\ [](wpc \in {"read", "write"} => forwarded \o wchunk \o stdin_buf = TypedKeys)
    /\ [](wpc = "read" => wchunk = <<>>)
    /\ [][forwarded' # forwarded =>
            /\ wpc = "write"
            /\ IsPrefix(forwarded', forwarded \o wchunk)
            /\ wpc' = "read" => forwarded' = forwarded \o wchunk]_vars
    /\ [][wpc = "done" => (wpc' = "done" /\ forwarded' = forwarded)]_vars

\* C27, as stated: the input pump forwards every chunk in the order read,
\* flushed, without dropping, duplicating or reordering bytes while it runs,
\* and it runs until a write or flush to the controller side or a read of
\* the real terminal's input fails: it has stopped only after such a failure.
C27_InputPumpRunsUntilFailure ==
    /\ ForwardsInOrder
    /\ [](wpc = "done" <=> input_end = "error")

\* C27, amended: the input pump forwards every chunk in the order read,
\* flushed, without dropping, duplicating or reordering bytes while it runs,
\* and it runs until a write or flush to the controller side or a read of
\* the real terminal's input fails, or until a read returns the end of the
\* input (zero bytes); bytes typed after that are not forwarded.
C27_InputPumpRunsUntilFailureOrEof ==
    /\ ForwardsInOrder
    /\ [](wpc = "done" <=> input_end \in {"eof", "error"})
    /\ [][(wpc' = "done" /\ wpc # "done") =>
            \/ wpc = "read" /\ input_end' = "error"
            \/ wpc = "read" /\ input_end' = "eof" /\ stdin_buf = <<>>
            \/ wpc = "write" /\ input_end' = "error"]_vars

\* Two bytes were forwarded in two chunks, the pump stopped on the end of
\* the input, and a byte typed afterwards waits unforwarded.
C27_Witness ==
    /\ forwarded = <<120, 121>>
    /\ wpc = "done"
    /\ input_end = "eof"
    /\ stdin_buf = <<122>>

\* C28: whenever execute_with_capture has returned after the child was
\* spawned, with a result or with an error, the child has exited.
C28_NoRunningChildLeftBehind ==
    (pc \in {"returned_ok", "returned_err"} /\ child # "none") => child = "exited"

-----------------------------------------------------------------------------
(* Properties of the cleanup of the log *)

\* The command c is one of the lines of the log
InLog(c) ==
    \E i \in 1..Len(commands_file) : from_str(commands_file[i]) = [ok |-> TRUE, cmd |-> c]

\* C29: a command appended to the log by a recording process while another
\* process runs cleanup_old_commands is never lost: when the cleanup
\* completes, every command appended since it began that is newer than the
\* cutoff is in the commands file.
C29_AppendDuringCleanupKept ==
    (cleaner.pc = "done")
        => \A j \in (cleaner.started + 1)..cleaner.finished :
              Later(appended[j].started_at, cleaner.cutoff) => InLog(appended[j])

\* started_at is strictly later than the instant `days` days before `now`:
\* for a number of days beyond the age of the epoch, every instant on or after
\* the epoch is
LaterThanNowMinus(t, now, days) ==
    IF days.wrapped THEN t.hi = 0 ELSE t.hi = 0 /\ t.lo > now - days.n

\* C30: cleanup_old_commands(days), run without concurrent writers, leaves in
\* the log exactly the commands whose started_at is strictly later than now
\* minus days, in their original order, and returns the number removed: the
\* number kept plus the number returned is the number stored before the call.
C30_CleanupKeepsExactlyTheNewer ==
    (cleaner.pc = "done" /\ Len(appended) = cleaner.started)
        => \E kept \in {SelectSeq(appended,
                                  LAMBDA c : LaterThanNowMinus(c.started_at, cleaner.now,
                                                               cleaner.days))} :
              /\ \E all \in {read_all_commands(commands_file)} :
                    all.ok /\ all.commands = kept
              /\ Len(kept) + cleaner.removed = Len(appended)

\* C31: in clean_commands the number announced before the confirmation is
\* the number cleanup_old_commands then removes (here: with no command
\* recorded in between), and the cleanup is performed only when the number
\* announced is not zero and the user confirmed.
C31_AnnouncedIsRemoved ==
    /\ (cleaner.pc = "done" /\ Len(appended) = cleaner.total)
          => cleaner.removed = cleaner.announced
    /\ cleaner.pc \in {"confirmed", "read", "open", "write", "done"}
          => cleaner.announced > 0
    /\ cleaner.pc \in {"returned", "cancelled"}
          => \E all \in {read_all_commands(commands_file)} :
                all.ok /\ all.commands = appended

-----------------------------------------------------------------------------
(* Properties of the duration *)

\* C32: for every pair of i64 nanosecond times given to Recorder::record, the
\* end possibly before the start, the subtraction does not overflow and the
\* duration_ms stored is the interval end_time - start_time in whole
\* milliseconds, never a negative interval read as a huge unsigned number.
C32_DurationIsElapsedMillis ==
    duration.start # NoTime
        => /\ ~duration.overflow
           /\ duration.stored
                 => /\ ~duration.ms.wrapped
                    /\ duration.start.hi = duration.end.hi
                          => duration.ms = [wrapped |-> FALSE, hi |-> 0,
                                            lo |-> TruncDiv(duration.end.lo - duration.start.lo,
                                                            NanosPerMilli)]

-----------------------------------------------------------------------------
(* Properties of the Command Splitter *)

\* The positions where a whitespace-separated token starts
TokenStarts(cmd) ==
    {i \in 1..Len(cmd) : ~IsWhitespace(cmd[i]) /\ (i = 1 \/ IsWhitespace(cmd[i - 1]))}

\* The token that starts at position i: up to the last character before the
\* next whitespace
TokenAt(cmd, i) ==
    SubSeq(cmd, i,
        CHOOSE j \in i..Len(cmd) :
            /\ \A k \in i..j : ~IsWhitespace(cmd[k])
            /\ j = Len(cmd) \/ IsWhitespace(cmd[j + 1]))

\* The start of the k-th token
KthStart(cmd, k) ==
    CHOOSE i \in TokenStarts(cmd) : Cardinality({j \in TokenStarts(cmd) : j < i}) = k - 1

\* C8: on the non-PowerShell path parse_command returns the first
\* whitespace-separated token as program and the remaining tokens, in order
\* and verbatim, as arguments; "echo hello world" gives ("echo", ["hello",
\* "world"]); a string with no token gives the empty program and no argument.
C8_SplitsOnWhitespace ==
    (pc = "spawn" /\ ~PowerShellPath(host)) =>
        /\ TokenStarts(command) = {} => program = <<>> /\ args = <<>>
        /\ TokenStarts(command) # {} =>
            /\ program = TokenAt(command, KthStart(command, 1))
            /\ Len(args) = Cardinality(TokenStarts(command)) - 1
            /\ \A k \in 1..Len(args) : args[k] = TokenAt(command, KthStart(command, k + 1))
        /\ command = EchoHelloWorld =>
            /\ program = <<"e", "c", "h", "o">>
            /\ args = <<(<<"h", "e", "l", "l", "o">>), (<<"w", "o", "r", "l", "d">>)>>

\* "echo hello world" has been split.
C8_Witness ==
    /\ pc = "spawn"
    /\ ~PowerShellPath(host)
    /\ command = EchoHelloWorld
    /\ program = <<"e", "c", "h", "o">>
    /\ Len(args) = 2

\* C18: on the PowerShell path, for every command string, the program is
\* pwsh.exe when it is on the search path and powershell.exe otherwise, and
\* the arguments are -NoProfile, -NonInteractive, -Command and the whole
\* command string as one argument, whatever whitespace it holds.
C18_PowerShellWrapsWholeCommand ==
    (pc = "spawn" /\ PowerShellPath(host)) =>
        /\ host.pwsh => program = <<"pwsh.exe">>
        /\ ~host.pwsh => program = <<"powershell.exe">>
        /\ Len(args) = 4
        /\ SubSeq(args, 1, 3) = <<(<<"-NoProfile">>), (<<"-NonInteractive">>), (<<"-Command">>)>>
        /\ args[4] = command

\* "echo hello world" has been wrapped for pwsh.exe.
C18_Witness ==
    /\ pc = "spawn"
    /\ PowerShellPath(host)
    /\ host.pwsh
    /\ command = EchoHelloWorld
    /\ program = <<"pwsh.exe">>
    /\ args[4] = EchoHelloWorld

-----------------------------------------------------------------------------
(* Properties of a process that calls execute_with_capture again *)

\* C11: in a later call of the same process no worker of an earlier call
\* takes part: no byte typed to the later call is read by an earlier call's
\* input pump, what reaches the terminal while the terminal writes succeed is
\* what the call's own output pump has read, in order, and a returned call has
\* produced its one result.
C11_SessionsIndependent ==
    calls > 1 =>
        /\ \A i \in 1..Len(stolen) : \A k \in Keys : stolen[i] # KeyFor(k, calls)
        /\ ~pump_fault => IsPrefix(echoed, read_bytes)
        /\ pc = "returned_ok" => result.ok


-----------------------------------------------------------------------------
(* Properties of the Recorder and the Storage *)

\* The text the Recorder is to store for an output: the output itself when
\* its length in bytes is at most max, and otherwise the text of its first
\* max bytes followed by the marker with the total length
StoredFor(stored, out, max) ==
    IF StrLen(out) <= max THEN stored = out
    ELSE \E i \in 0..Len(out) :
            /\ StrLen(SubSeq(out, 1, i)) = max
            /\ stored = SubSeq(out, 1, i) \o Marker(StrLen(out))

\* C15: for every output text, Recorder.record does not fail on the text,
\* and the Command it stores holds the output unchanged when its length in
\* bytes is at most max_output_size, and otherwise its first max_output_size
\* bytes followed by the marker that states the total length.
C15_RecordTruncatesEveryText ==
    [][\A a \in RecordArgs, st \in RecordTimes, et \in RecordTimes :
          Record(a[1], a[2], 0, st, et, a[3]) =>
              /\ err' # "panic"
              /\ err' = None =>
                    StoredFor(appended'[Len(appended')].output, a[2], max_size)]_vars


\* C16: the log is append-only under record: reading it gives at every
\* moment the commands appended so far, in append order and with the field
\* values they were built with; and every record that succeeds leaves a log
\* that reads as what it read before followed by the one new command.
C16_LogReadsBackAppended ==
    /\ [](read_all_commands(commands_file) = [ok |-> TRUE, commands |-> appended])
    /\ [][\A a \in RecordArgs, st \in RecordTimes, et \in RecordTimes :
             (Record(a[1], a[2], 0, st, et, a[3]) /\ err' = None) =>
                 /\ read_all_commands(commands_file').ok
                 /\ read_all_commands(commands_file').commands =
                        Append(read_all_commands(commands_file).commands,
                               Command(a[1], truncate_output(a[2], max_size).text,
                                       0, st, a[3]))]_vars

\* Two commands were appended, one of them with a quote and a line feed in
\* its output, and the log has two lines.
C16_Witness ==
    /\ Len(appended) = 2
    /\ Len(commands_file) = 2
    /\ \E i \in 1..2 : Contains(appended[i].output, <<10>>)
                       /\ Contains(appended[i].output, <<34>>)


\* An upper-case letter of ASCII or Latin-1
IsUpper(c) == (c >= 65 /\ c <= 90) \/ (c >= 192 /\ c <= 222 /\ c # 215)

\* Two characters that are the same up to their case
SameLetter(a, b) == a = b \/ (IsUpper(a) /\ b = a + 32) \/ (IsUpper(b) /\ a = b + 32)

\* The text contains the query, case-insensitively
ContainsIgnoringCase(text, q) ==
    \E k \in 0..(Len(text) - Len(q)) :
        \A i \in 1..Len(q) : SameLetter(text[k + i], q[i])

\* The stored command matches the query in its command, cwd or output
MatchesQuery(c, q) ==
    \/ ContainsIgnoringCase(c.command, q)
    \/ ContainsIgnoringCase(c.cwd, q)
    \/ ContainsIgnoringCase(c.output, q)

\* C17: search_commands(query, limit) returns stored commands that match the
\* query case-insensitively in command, cwd or output, each stored command
\* at most once, most recent started_at first, and cut to the first `limit`
\* of that order: min(limit, number of matches) of them, none older than a
\* match that was left out.
C17_SearchReturnsMatchesNewestFirst ==
    pc = "searched" =>
        /\ found.ok
        /\ Len(found.commands) =
               Min(limit, Cardinality({j \in 1..Len(appended) : MatchesQuery(appended[j], query)}))
        /\ \E idx \in [1..Len(found.commands) -> 1..Len(appended)] :
              /\ \A k, l \in 1..Len(found.commands) : k # l => idx[k] # idx[l]
              /\ \A k \in 1..Len(found.commands) :
                    /\ found.commands[k] = appended[idx[k]]
                    /\ MatchesQuery(appended[idx[k]], query)
              /\ \A k \in 1..(Len(found.commands) - 1) :
                    LeI64(found.commands[k + 1].started_at, found.commands[k].started_at)
              /\ \A j \in 1..Len(appended) :
                    (MatchesQuery(appended[j], query) /\ \A k \in 1..Len(found.commands) : idx[k] # j) =>
                        \A k \in 1..Len(found.commands) :
                            LeI64(appended[j].started_at, found.commands[k].started_at)

\* The search for "a" with limit 1 on a log of the command "a" and a later
\* command "B" run in "/A" returns the later one.
C17_Witness ==
    /\ pc = "searched"
    /\ query = <<97>>
    /\ limit = 1
    /\ Len(appended) = 2
    /\ appended[1].command = <<97>>
    /\ appended[2].command = <<66>>
    /\ appended[2].cwd = <<47, 65>>
    /\ ~Contains(appended[2].output, <<97>>)
    /\ ~LeI64(appended[2].started_at, appended[1].started_at)
    /\ found.ok
    /\ found.commands = <<appended[2]>>

-----------------------------------------------------------------------------
(* Properties of the browser *)

\* The indices of the filtered list
FilteredSet(a) == {a.filtered_commands[i] : i \in 1..Len(a.filtered_commands)}

\* selected < len of the filtered list when it is not empty, 0 when it is
SelectionValid(a) ==
    IF a.filtered_commands # <<>> THEN a.selected < Len(a.filtered_commands)
    ELSE a.selected = 0

\* C33: in the browser the selection is valid after any sequence of key
\* events: below the length of a filtered list that is not empty, 0 when it is
\* empty; the filtered list holds distinct indices of loaded commands in
\* increasing order; every navigation operation keeps the selection inside
\* the list, and get_selected_command returns a command exactly when the
\* filtered list is not empty.
C33_SelectionValid ==
    app.pc # "closed" =>
        /\ SelectionValid(app)
        /\ \A i \in 1..Len(app.filtered_commands) :
              /\ app.filtered_commands[i] >= 0
              /\ app.filtered_commands[i] < Len(app.commands)
              /\ i > 1 => app.filtered_commands[i - 1] < app.filtered_commands[i]
        /\ \A a \in {select_next(app), select_previous(app), page_down(app, page_size),
                     page_up(app, page_size), select_first(app), select_last(app)} :
              SelectionValid(a) /\ a.filtered_commands = app.filtered_commands
        /\ get_selected_command(app).some <=> app.filtered_commands # <<>>
        /\ get_selected_command(app).some =>
              get_selected_command(app).val
                  = app.commands[app.filtered_commands[app.selected + 1] + 1]

\* A filter of two characters left two of three commands, and the selection
\* was moved to the last of them.
C33_Witness ==
    /\ app.pc = "running"
    /\ Len(app.search_query) = 2
    /\ ~app.search_mode
    /\ Len(app.commands) = 3
    /\ Len(app.filtered_commands) = 2
    /\ app.selected = 1

\* C34: whenever search mode is not active, the filtered list is exactly the
\* indices of the commands whose command, cwd or output contains the search
\* query case-insensitively, all commands when the query is empty.
C34_ListMatchesFilterText ==
    (app.pc = "running" /\ ~app.search_mode) =>
        app.filtered_commands =
            SelectSeq(Range0(Len(app.commands)),
                      LAMBDA i : app.search_query = <<>>
                                 \/ MatchesQuery(app.commands[i + 1], app.search_query))

\* the key 'q', plain or with Control
QKeys == {Key("Char", 113, ctrl) : ctrl \in BOOLEAN}

\* C35: search mode is only ever active in list view; while it is active the
\* key 'q' is appended to the search query and does not quit; while it is not,
\* 'q' sets should_quit in list and in detail view; should_quit, once true, is
\* never reset.
C35_SearchModeAndQuit ==
    /\ [](app.search_mode => app.view_mode = "List")
    /\ [](app.pc = "running" =>
             \A key \in QKeys :
                IF app.search_mode
                THEN handle_key_event(app, key)
                         = [app EXCEPT !.search_query = Append(app.search_query, 113)]
                ELSE handle_key_event(app, key) = [app EXCEPT !.should_quit = TRUE])
    /\ [][app.should_quit => app'.should_quit]_vars
    /\ [][(app.pc = "running" /\ app'.should_quit) => ~app.search_mode]_vars

\* 'q' was typed into the search query and the browser goes on.
C35_Witness ==
    /\ app.pc = "running"
    /\ app.search_mode
    /\ app.search_query = <<113>>
    /\ ~app.should_quit

\* C36: the marked set holds only indices of loaded commands; toggle_mark
\* flips the index of the selected command and nothing else (nothing when
\* the filtered list is empty), mark_all adds exactly the filtered indices,
\* clear_marks empties the set; navigation, the view toggle, search input,
\* apply_filter and clear_search leave the set as it is, and a key event
\* changes it only through a marking key of the list view.
C36_MarksChangedByMarkingOnly ==
    /\ [](\A i \in app.marked : i >= 0 /\ i < Len(app.commands))
    /\ [](app.pc = "running" =>
             /\ toggle_mark(app).marked =
                    IF app.filtered_commands = <<>> THEN app.marked
                    ELSE IF app.filtered_commands[app.selected + 1] \in app.marked
                    THEN app.marked \ {app.filtered_commands[app.selected + 1]}
                    ELSE app.marked \cup {app.filtered_commands[app.selected + 1]}
             /\ mark_all(app).marked = app.marked \cup FilteredSet(app)
             /\ clear_marks(app).marked = {}
             /\ \A a \in {select_next(app), select_previous(app),
                          page_down(app, page_size), page_up(app, page_size),
                          select_first(app), select_last(app), toggle_view_mode(app),
                          search_input(app, 97), search_backspace(app),
                          apply_filter(app), clear_search(app)} :
                   a.marked = app.marked
             /\ \A key \in KeyEvents :
                   handle_key_event(app, key).marked # app.marked =>
                       /\ ~app.search_mode
                       /\ app.view_mode = "List"
                       /\ key.code = "Char" /\ key.c \in {32, 97, 99})
    /\ [][app'.marked # app.marked =>
             /\ ~app.search_mode /\ app.view_mode = "List"
             /\ \/ app'.marked = toggle_mark(app).marked
                \/ app'.marked = mark_all(app).marked
                \/ app'.marked = clear_marks(app).marked]_vars

\* A command was marked and the filter was changed since: the mark is kept
\* although the command is not in the filtered list.
C36_Witness ==
    /\ app.pc = "running"
    /\ app.search_query # <<>>
    /\ ~app.search_mode
    /\ \E i \in app.marked : i \notin FilteredSet(app)
    /\ \E i \in app.marked : i \in FilteredSet(app)

=============================================================================
